---- MODULE Spec2Model ----
(***************************************************************************)
(* Commit Watch: the change-detection engine of the browser extension.     *)
(* The persistent store (chrome.storage.local), the in-memory rate-limit   *)
(* globals of the two API clients, the hosting platforms as seen through   *)
(* their REST answers, and the asynchronous handlers (alarm, checkNow)     *)
(* whose sweeps suspend at every await.                                    *)
(***************************************************************************)
EXTENDS Integers, Sequences, FiniteSets, TLC

\* ------------------------------------------------------------------ bounds
MaxSha == 3          \* highest commit number on a default branch
MaxRel == 1          \* highest release / tag number of a repository
MaxEvents == 2       \* pushes and publications per run
MaxRaceEvents == 1   \* pushes per run with two handlers in flight
MaxFaultEvents == 1  \* pushes per run with failing requests
MaxFaults == 1       \* failing answers (network, status, exhausted budget) per run
MaxRuns == 2         \* handler invocations (alarm firings and checkNow messages)
MaxTicks == 1        \* clock advances
MaxEdits == 1        \* settings changes through updateSettings
MaxBatchRuns == 2    \* handler invocations when every repository is enabled
MaxBatchEvents == 1  \* pushes per run when every repository is enabled
MaxAppends == 102    \* records appended in the history specification
MaxCalls == 3        \* client calls in the rate-limit specification
MaxFiles == 3        \* changed files of a commit handed to the classifier
MaxParents == 2      \* parents of a commit handed to the classifier
MaxSweeps == 3       \* handler invocations in the specification of repeated sweeps
MaxFlips == 2        \* changes of ignoreForks in the listing specification
MaxReads == 2        \* getRepositories messages in the directory specification
MaxNotes == 8        \* threads that arrive in the GitHub notification feed

\* ------------------------------------------------------- program constants
batchSize == 10              \* commit-monitoring.js:264, part_004:411
HistoryCap == 100            \* part_005:61  slice(0, 100)
RateFloor == 10              \* part_005:336, part_004:32  remaining <= 10
GitHubDefaultLimit == 5000   \* part_005:317, 357
GitLabDefaultLimit == 2000   \* part_004:14, 52
MsPerSecond == 1000          \* part_005:337  Date.now() / 1000
SecondsPerMinute == 60       \* part_005:339  / 60
CacheTtlMs == 3600000        \* part_004:525  60 * 60 * 1000
PageCap == 50                \* part_004:128, part_004:505
DEFAULT_CHECK_INTERVAL == 5  \* constants.js:8  minutes
FeedPage == 50               \* part_005:225  per_page=50
FeedCap == 5                 \* part_005:248  slice(0, 5)
SeenCap == 1000              \* part_005:254  slice(-1000)

\* -------------------------------------------------------------- universe
Platforms == {"github", "gitlab"}
Me == "me"                   \* login of the token's owner on either platform
Authors == {"me", "dev"}     \* author.login (GitHub) / author_name (GitLab)
None == "none"               \* a key that is not in the store

\* What the platforms list for the authenticated identity.  The f/* repositories
\* are switched off in the settings (enabledRepos[full_name] = false).
Repo(p, n) == [platform |-> p, full_name |-> n]
Fillers == << Repo("github", "f/1"), Repo("github", "f/2"), Repo("github", "f/3"),
              Repo("github", "f/4"), Repo("github", "f/5"), Repo("github", "f/6"),
              Repo("github", "f/7"), Repo("github", "f/8") >>
GitHubRepos == << Repo("github", "a/x"), Repo("github", "a/y") >> \o Fillers
GitLabRepos == << Repo("gitlab", "a/x") >>
Range(s) == { s[i] : i \in 1..Len(s) }
\* The owner's fork of a/x on each platform (repo.fork on GitHub,
\* project.forked_from_project on GitLab); the platform lists it after the
\* other repositories.
Fork(p) == Repo(p, "me/x")
IsFork(r) == r.full_name = "me/x"
AllRepos == Range(GitHubRepos) \cup Range(GitLabRepos) \cup { Fork(p) : p \in Platforms }
Watched == AllRepos \ Range(Fillers)
\* The repositories that see pushes and publications during a run; a/y on
\* GitHub keeps the commit it has.
Active == { Repo("github", "a/x"), Repo("gitlab", "a/x") }

\* Keys of the last-seen maps and of enabledRepos: the composite
\* `${platform}:${full_name}` and the plain full_name of older versions.
CompositeKey(r) == << r.platform, r.full_name >>
PlainKey(r) == << "", r.full_name >>
FillerOff == [ k \in { PlainKey(Fillers[i]) : i \in 1..Len(Fillers) } |-> FALSE ]

Min(a, b) == IF a < b THEN a ELSE b
Take(s, n) == SubSeq(s, 1, Min(n, Len(s)))
\* Math.ceil(a / b) for a >= 0, b > 0
CeilDiv(a, b) == (a + b - 1) \div b

VARIABLES
  storage,     \* chrome.storage.local
  rate,        \* module-level rateLimitRemaining / rateLimitReset of each client
  remote,      \* what the hosting platforms answer: head commit, release, tag
  now,         \* Date.now(), in ms
  alarm,       \* whether the polling alarm is armed
  proc,        \* the running handlers: position and locals
  sink,        \* ids handed to chrome.notifications.create
  budget,      \* what the environment may still do
  seen,        \* per repository and kind, the id of the latest successful fetch
  call         \* the latest call of a client made on its own, and how it ended

vars == << storage, rate, remote, now, alarm, proc, sink, budget, seen, call >>

Procs == {"h1", "h2"}
Kinds == {"commits", "releases"}

\* ------------------------------------------------------------ identifiers
\* Every identifier is a pair: a commit sha, a release id, or the commit id of
\* a tag promoted to a release.  NoId stands for "no entry".
Sha(n) == << "sha", n >>
Rel(n) == << "rel", n >>
Tag(n) == << "tag", n >>
NoId == << "", 0 >>
Ids == { Sha(n) : n \in 1..(MaxSha + 1) } \cup { Rel(n) : n \in 1..(MaxRel + 1) }
         \cup { Tag(n) : n \in 1..(MaxRel + 1) }

\* lastCommits[repoKey] || lastCommits[repo.full_name]
Lookup(map, repo) ==
  IF CompositeKey(repo) \in DOMAIN map THEN map[CompositeKey(repo)]
  ELSE IF PlainKey(repo) \in DOMAIN map THEN map[PlainKey(repo)]
  ELSE NoId

\* updatedLastCommits[key] = id
Put(map, key, id) == [ k \in DOMAIN map \cup {key} |-> IF k = key THEN id ELSE map[k] ]

\* ------------------------------------------------------------ API clients
\* An answer of the network: fetch() rejects (net), or a response with a status
\* and the three rate-limit headers; a header that is absent reads -1.
Answer(net, status, remaining, reset, limit) ==
  [net |-> net, status |-> status, remaining |-> remaining, reset |-> reset,
   limit |-> limit]
OkAnswer == Answer(FALSE, 200, -1, -1, -1)
Header(h, default) == IF h = -1 THEN default ELSE h
DefaultLimit(platform) ==
  IF platform = "gitlab" THEN GitLabDefaultLimit ELSE GitHubDefaultLimit
InitialRate == [ p \in Platforms |-> [remaining |-> DefaultLimit(p), reset |-> 0] ]

\* The gate with a strict comparison: a budget exactly at the floor passes.
RateGateStrict(r, t) ==
  r.remaining < RateFloor /\ r.reset # 0 /\ t < r.reset * MsPerSecond

\* A gate that stays closed once the budget is at the floor, whatever the time.
RateGateNeverReopens(r, t) ==
  r.remaining <= RateFloor /\ r.reset # 0

\* The gate in front of the request: rateLimitRemaining <= 10 && rateLimitReset,
\* then now < rateLimitReset with now = Date.now() / 1000.  A reset that is null
\* or 0 is falsy and is kept as 0.
RateGateClosed(r, t) ==
  r.remaining <= RateFloor /\ r.reset # 0 /\ t < r.reset * MsPerSecond

\* Math.ceil((rateLimitReset - now) / 60)
WaitMinutes(r, t) == CeilDiv(r.reset * MsPerSecond - t, SecondsPerMinute * MsPerSecond)

\* A client that follows the headers of successful responses only.
FetchSuccessOnly(platform, token, r, t, ans) ==
  IF token = None
    THEN [outcome |-> "noauth", wait |-> 0, sent |-> FALSE, status |-> 0,
          rate |-> r, persist |-> FALSE, limit |-> 0]
  ELSE IF RateGateClosed(r, t)
    THEN [outcome |-> "ratelimited", wait |-> WaitMinutes(r, t), sent |-> FALSE,
          status |-> 0, rate |-> r, persist |-> FALSE, limit |-> 0]
  ELSE IF ans.net
    THEN [outcome |-> "neterror", wait |-> 0, sent |-> TRUE, status |-> 0,
          rate |-> r, persist |-> FALSE, limit |-> 0]
  ELSE IF ans.status < 200 \/ ans.status > 299
    THEN [outcome |-> "response", wait |-> 0, sent |-> TRUE, status |-> ans.status,
          rate |-> r, persist |-> FALSE, limit |-> 0]
  ELSE [outcome |-> "response", wait |-> 0, sent |-> TRUE, status |-> ans.status,
        rate |-> [remaining |-> Header(ans.remaining, DefaultLimit(platform)),
                  reset |-> Header(ans.reset, 0)],
        persist |-> TRUE, limit |-> Header(ans.limit, DefaultLimit(platform))]

\* fetchGitHub / fetchGitLab: the outcome of one call made with `token` stored,
\* the in-memory state r, at time t, when the network would answer `ans`.
\*   outcome   "noauth" | "ratelimited" | "neterror" (all three thrown) | "response"
\*   sent      whether fetch() was called
\*   rate      the in-memory state afterwards
\*   persist   whether the rate-limit record was written to the store
Fetch(platform, token, r, t, ans) ==
  IF token = None
    THEN [outcome |-> "noauth", wait |-> 0, sent |-> FALSE, status |-> 0,
          rate |-> r, persist |-> FALSE, limit |-> 0]
  ELSE IF RateGateClosed(r, t)
    THEN [outcome |-> "ratelimited", wait |-> WaitMinutes(r, t), sent |-> FALSE,
          status |-> 0, rate |-> r, persist |-> FALSE, limit |-> 0]
  ELSE IF ans.net
    THEN [outcome |-> "neterror", wait |-> 0, sent |-> TRUE, status |-> 0,
          rate |-> r, persist |-> FALSE, limit |-> 0]
  ELSE [outcome |-> "response", wait |-> 0, sent |-> TRUE, status |-> ans.status,
        rate |-> [remaining |-> Header(ans.remaining, DefaultLimit(platform)),
                  reset |-> Header(ans.reset, 0)],
        persist |-> TRUE, limit |-> Header(ans.limit, DefaultLimit(platform))]

Ok(c) == c.outcome = "response" /\ c.status >= 200 /\ c.status <= 299
Thrown(c) == c.outcome # "response"

\* The record the client writes under rateLimit / gitlabRateLimit.
RateRecord(c) == [remaining |-> c.rate.remaining, reset |-> c.rate.reset, limit |-> c.limit]
NoRateRecord == [remaining |-> -1, reset |-> -1, limit |-> -1]
RateKey(platform) == IF platform = "gitlab" THEN "gitlabRateLimit" ELSE "rateLimit"
TokenKey(platform) == IF platform = "gitlab" THEN "gitlabToken" ELSE "githubToken"

\* ------------------------------------------------------ change detectors
\* The test of the composite key alone.
RepoDisabledCompositeOnly(repo, settings) ==
  LET e == settings.enabledRepos
  IN CompositeKey(repo) \in DOMAIN e /\ ~e[CompositeKey(repo)]

\* settings.enabledRepos[repoKey] === false || settings.enabledRepos[repo.full_name] === false
RepoDisabled(repo, settings) ==
  LET e == settings.enabledRepos
  IN \/ (CompositeKey(repo) \in DOMAIN e /\ ~e[CompositeKey(repo)])
     \/ (PlainKey(repo) \in DOMAIN e /\ ~e[PlainKey(repo)])

\* What a fetch hands to the detector: nothing (null), the list entry marked
\* unchanged, or a record with its identifier and author login.  "throw" is an
\* exception leaving the fetch function.
Fetched(tag, id, author) == [tag |-> tag, id |-> id, author |-> author]
NullFetched == Fetched("null", NoId, None)

\* The status of the list request when the network answers normally: GitHub
\* answers 409 for a repository without commits, GitLab an empty list.
ListStatus(repo, head) == IF repo.platform = "github" /\ head.sha = 0 THEN 409 ELSE 200

\* A second request whatever the stored sha.
NeedsDetailAlways(head, lastKnownSha, c1) == Ok(c1) /\ head.sha # 0

\* Whether the second request (commit detail / diff) is issued.
NeedsDetail(head, lastKnownSha, c1) ==
  Ok(c1) /\ head.sha # 0 /\ ~(lastKnownSha # NoId /\ Sha(head.sha) = lastKnownSha)

\* fetchLatestGitHubCommit without its try/catch: what a client call throws
\* leaves the function.
FetchLatestGitHubCommitNoCatch(head, lastKnownSha, c1, c2) ==
  IF Thrown(c1) THEN Fetched("throw", NoId, None)
  ELSE IF ~Ok(c1) \/ head.sha = 0 THEN NullFetched
  ELSE IF lastKnownSha # NoId /\ Sha(head.sha) = lastKnownSha
    THEN Fetched("unchanged", Sha(head.sha), head.author)
  ELSE IF Thrown(c2) THEN Fetched("throw", NoId, None)
  ELSE Fetched("commit", Sha(head.sha), head.author)

\* fetchLatestGitHubCommit: c1 is the outcome of the list request, c2 of the
\* detail request.  Everything thrown is caught and degrades to null; a detail
\* response that is not ok falls back to the list entry.
FetchLatestGitHubCommit(head, lastKnownSha, c1, c2) ==
  IF Thrown(c1) \/ ~Ok(c1) THEN NullFetched
  ELSE IF head.sha = 0 THEN NullFetched
  ELSE IF lastKnownSha # NoId /\ Sha(head.sha) = lastKnownSha
    THEN Fetched("unchanged", Sha(head.sha), head.author)
  ELSE IF Thrown(c2) THEN NullFetched
  ELSE Fetched("commit", Sha(head.sha), head.author)

\* fetchLatestGitLabCommit: the diff request has a try/catch of its own, so its
\* failure only empties the file list; author.login is the commit's author_name.
FetchLatestGitLabCommit(head, lastKnownSha, c1, c2) ==
  IF Thrown(c1) \/ ~Ok(c1) THEN NullFetched
  ELSE IF head.sha = 0 THEN NullFetched
  ELSE IF lastKnownSha # NoId /\ Sha(head.sha) = lastKnownSha
    THEN Fetched("unchanged", Sha(head.sha), None)
  ELSE Fetched("commit", Sha(head.sha), head.author)

FetchLatestCommit(repo, head, lastKnownSha, c1, c2) ==
  IF repo.platform = "gitlab"
    THEN FetchLatestGitLabCommit(head, lastKnownSha, c1, c2)
    ELSE FetchLatestGitHubCommit(head, lastKnownSha, c1, c2)

\* A detector's result: null, or {repo, commit|release, isNew, repoKey}.
Result(tag, repo, id, isNew) ==
  [tag |-> tag, repo |-> repo, id |-> id, isNew |-> isNew, repoKey |-> CompositeKey(repo)]
NullResult(repo) == Result("null", repo, NoId, FALSE)
ThrowResult(repo) == Result("throw", repo, NoId, FALSE)

\* The commit detector without its first-check branch: a repository that has
\* no stored sha is compared like any other.
CheckRepoNoFirstCheck(repo, lastCommits, settings, userData, gitlabUserData, latestCommit) ==
  LET lastKnownSha == Lookup(lastCommits, repo)
      currentUser == IF repo.platform = "gitlab" THEN gitlabUserData ELSE userData
  IN IF RepoDisabled(repo, settings) THEN NullResult(repo)
     ELSE IF latestCommit.tag \in {"throw", "null", "unchanged"} THEN NullResult(repo)
     ELSE IF latestCommit.id # lastKnownSha
       THEN IF settings.ignoreOwnCommits /\ currentUser # None
               /\ latestCommit.author = currentUser
              THEN Result("result", repo, latestCommit.id, FALSE)
              ELSE Result("result", repo, latestCommit.id, TRUE)
     ELSE NullResult(repo)

\* The commit detector without the ignoreOwnCommits branch.
CheckRepoNoOwnFilter(repo, lastCommits, settings, userData, gitlabUserData, latestCommit) ==
  LET lastKnownSha == Lookup(lastCommits, repo)
  IN IF RepoDisabled(repo, settings) THEN NullResult(repo)
     ELSE IF latestCommit.tag \in {"throw", "null", "unchanged"} THEN NullResult(repo)
     ELSE IF lastKnownSha = NoId THEN Result("result", repo, latestCommit.id, FALSE)
     ELSE IF latestCommit.id # lastKnownSha
       THEN Result("result", repo, latestCommit.id, TRUE)
     ELSE NullResult(repo)

\* checkRepoForNewCommits, given what fetchLatestCommit returned.
CheckRepoForNewCommits(repo, lastCommits, settings, userData, gitlabUserData, latestCommit) ==
  LET lastKnownSha == Lookup(lastCommits, repo)
      currentUser == IF repo.platform = "gitlab" THEN gitlabUserData ELSE userData
  IN IF RepoDisabled(repo, settings) THEN NullResult(repo)
     ELSE IF latestCommit.tag = "throw" THEN ThrowResult(repo)
     ELSE IF latestCommit.tag = "null" THEN NullResult(repo)
     ELSE IF latestCommit.tag = "unchanged" THEN NullResult(repo)
     ELSE IF lastKnownSha = NoId THEN Result("result", repo, latestCommit.id, FALSE)
     ELSE IF latestCommit.id # lastKnownSha
       THEN IF settings.ignoreOwnCommits /\ currentUser # None
               /\ latestCommit.author = currentUser
              THEN Result("result", repo, latestCommit.id, FALSE)
              ELSE Result("result", repo, latestCommit.id, TRUE)
     ELSE NullResult(repo)

\* fetchLatestGitHubRelease / fetchLatestGitLabRelease: GitHub answers 404 when
\* the repository has no release, GitLab an empty list; both give null, and so
\* does everything thrown.
ReleaseStatus(repo, n) == IF repo.platform = "github" /\ n = 0 THEN 404 ELSE 200
FetchLatestRelease(repo, n, c) ==
  IF Thrown(c) \/ ~Ok(c) \/ n = 0 THEN NullFetched ELSE Fetched("release", Rel(n), None)

\* fetchLatestGitHubTag / fetchLatestGitLabTag: id is the tag's commit id.
FetchLatestTag(repo, n, c) ==
  IF Thrown(c) \/ ~Ok(c) \/ n = 0 THEN NullFetched ELSE Fetched("release", Tag(n), None)

\* checkRepoForNewReleases, given fetchLatestRelease(repo) || fetchLatestTag(repo).
CheckRepoForNewReleases(repo, lastReleases, settings, latestRelease) ==
  LET lastKnownId == Lookup(lastReleases, repo)
  IN IF RepoDisabled(repo, settings) THEN NullResult(repo)
     ELSE IF latestRelease.tag = "throw" THEN ThrowResult(repo)
     ELSE IF latestRelease.tag = "null" THEN NullResult(repo)
     ELSE IF lastKnownId = NoId THEN Result("result", repo, latestRelease.id, FALSE)
     ELSE IF latestRelease.id # lastKnownId
       THEN Result("result", repo, latestRelease.id, TRUE)
     ELSE NullResult(repo)

\* ------------------------------------------------------------------ state
\* getSettings(): the stored settings over the defaults.
DefaultSettings ==
  [checkInterval |-> DEFAULT_CHECK_INTERVAL, ignoreForks |-> TRUE,
   notificationsEnabled |-> TRUE, releaseNotificationsEnabled |-> TRUE,
   ignoreOwnCommits |-> FALSE, enabledRepos |-> FillerOff]
Flags == {"notificationsEnabled", "releaseNotificationsEnabled", "ignoreOwnCommits"}

NoCache == [has |-> FALSE, list |-> << >>, updated |-> 0]
CacheKey(platform) == IF platform = "gitlab" THEN "gitlabRepositories" ELSE "repositories"
UserKey(platform) == IF platform = "gitlab" THEN "gitlabUserData" ELSE "userData"
Listing(platform) == IF platform = "gitlab" THEN GitLabRepos ELSE GitHubRepos
\* The first page of the platform's answer: the listing and the fork.
Served(platform) == Listing(platform) \o << Fork(platform) >>
MapKey(kind) == IF kind = "commits" THEN "lastCommits" ELSE "lastReleases"

\* The store of an installed extension nobody is logged in to; the f/*
\* repositories were switched off in an earlier session (settings outlive logout).
InitialStorage ==
  [githubToken |-> None, gitlabToken |-> None,
   userData |-> None, gitlabUserData |-> None,
   settings |-> DefaultSettings,
   repositories |-> NoCache, gitlabRepositories |-> NoCache,
   lastCommits |-> << >>, lastReleases |-> << >>,
   notificationHistory |-> << >>, unreadCount |-> 0,
   lastCheckTime |-> 0, lastError |-> None, seenNotifications |-> << >>,
   rateLimit |-> NoRateRecord, gitlabRateLimit |-> NoRateRecord]

StartTime == 5000
Minute == SecondsPerMinute * MsPerSecond
TickSteps == {Minute \div 2, Minute, CacheTtlMs + 1}

InitialRemote ==
  [head |-> [r \in Watched |-> [sha |-> 1, author |-> "dev"]],
   release |-> [r \in Watched |-> 0],
   tag |-> [r \in Watched |-> 0],
   notifications |-> << >>]

\* A handler that is not running.  ev, reqs (requests sent by detectors),
\* listed (requests sent for the repository listing), wrote, abort and fetched
\* record what the current sweep has done so far.
IdleProc ==
  [pc |-> "idle", kind |-> "commits", settings |-> DefaultSettings,
   userData |-> None, gitlabUserData |-> None, repos |-> << >>,
   last |-> << >>, updated |-> << >>, queue |-> << >>,
   i |-> 0, pend |-> {}, res |-> << >>, fetched |-> << >>,
   n |-> 0, hist |-> << >>, unread |-> 0, err |-> None,
   ev |-> << >>, reqs |-> 0, listed |-> 0, wrote |-> {}, abort |-> None]

NoSeen == [k \in Kinds |-> [r \in Watched |-> NoId]]
NoCall == [made |-> FALSE, platform |-> None, token |-> None, at |-> 0,
           before |-> [remaining |-> 0, reset |-> 0],
           outcome |-> None, sent |-> FALSE, wait |-> 0, ans |-> OkAnswer]

InitCommon ==
  /\ storage = InitialStorage
  /\ rate = InitialRate
  /\ remote = InitialRemote
  /\ now = StartTime
  /\ alarm = FALSE
  /\ proc = [p \in Procs |-> IdleProc]
  /\ sink = {}
  /\ seen = NoSeen
  /\ call = NoCall

NoBudget == [runs |-> 0, faults |-> 0, ticks |-> 0, edits |-> 0, events |-> 0,
             appends |-> 0, calls |-> 0]

\* Runs in which every request and every storage call succeeds.
Init ==
  /\ InitCommon
  /\ budget = [NoBudget EXCEPT !.runs = MaxRuns, !.edits = MaxEdits, !.events = MaxEvents]

\* Runs with failing requests and storage calls.
InitFault ==
  /\ InitCommon
  /\ budget = [NoBudget EXCEPT !.runs = MaxRuns, !.faults = MaxFaults,
                               !.events = MaxFaultEvents]

\* Runs of client calls and clock advances.
InitRate ==
  /\ InitCommon
  /\ budget = [NoBudget EXCEPT !.calls = MaxCalls, !.ticks = MaxTicks]

\* Runs of notifications stored one after the other.
InitHistory ==
  /\ InitCommon
  /\ budget = [NoBudget EXCEPT !.appends = MaxAppends, !.ticks = MaxTicks]

\* Runs in which every listed repository is enabled (enabledRepos is empty, as
\* after installation) and has a commit, so that a batch has ten detectors in
\* flight.
InitBatch ==
  /\ storage = [InitialStorage EXCEPT !.settings.enabledRepos = << >>]
  /\ rate = InitialRate
  /\ remote = [head |-> [r \in AllRepos |-> [sha |-> 1, author |-> "dev"]],
               release |-> [r \in AllRepos |-> 0],
               tag |-> [r \in AllRepos |-> 0],
               notifications |-> << >>]
  /\ now = StartTime
  /\ alarm = FALSE
  /\ proc = [p \in Procs |-> IdleProc]
  /\ sink = {}
  /\ seen = [k \in Kinds |-> [r \in AllRepos |-> NoId]]
  /\ call = NoCall
  /\ budget = [NoBudget EXCEPT !.runs = MaxBatchRuns, !.events = MaxBatchEvents]

\* Runs with two handlers in flight and pushes in between.
InitRace ==
  /\ InitCommon
  /\ budget = [NoBudget EXCEPT !.runs = MaxRuns, !.events = MaxRaceEvents]

\* ------------------------------------------------------------ environment
\* Answers the network may give to one request: the plain one (200, no
\* rate-limit headers), and, while failures remain in the budget, a rejected
\* fetch, a server error, and a response announcing a budget down to the
\* floor that resets one minute from now.
LowAnswer(t) == Answer(FALSE, 200, RateFloor, (t \div MsPerSecond) + SecondsPerMinute, -1)
Faulty(t) == { Answer(TRUE, 0, -1, -1, -1), Answer(FALSE, 500, -1, -1, -1), LowAnswer(t) }
\* A refusal that carries the three rate-limit headers: nothing left out of 60
\* until one minute from now.
Refusal(t) == Answer(FALSE, 403, 0, (t \div MsPerSecond) + SecondsPerMinute, 60)
Answers(b, t) == {OkAnswer} \cup (IF b.faults > 0 THEN Faulty(t) ELSE {})
Cost(ans) == IF ans = OkAnswer THEN 0 ELSE 1
WithStatus(ans, status) == IF ans.net \/ ans.status # 200 THEN ans ELSE [ans EXCEPT !.status = status]

\* A commit is pushed to the default branch of repository r by author a.
Push(r, a) ==
  /\ remote.head[r].sha < MaxSha /\ budget.events > 0
  /\ remote' = [remote EXCEPT !.head[r] = [sha |-> @.sha + 1, author |-> a]]
  /\ budget' = [budget EXCEPT !.events = @ - 1]
  /\ UNCHANGED << storage, rate, now, alarm, proc, sink, seen, call >>

\* A release, or a bare tag, is published in repository r.
Publish(r, what) ==
  /\ remote[what][r] < MaxRel /\ budget.events > 0
  /\ remote' = [remote EXCEPT ![what][r] = @ + 1]
  /\ budget' = [budget EXCEPT !.events = @ - 1]
  /\ UNCHANGED << storage, rate, now, alarm, proc, sink, seen, call >>

Tick(d) ==
  /\ budget.ticks > 0
  /\ now' = now + d
  /\ budget' = [budget EXCEPT !.ticks = @ - 1]
  /\ UNCHANGED << storage, rate, remote, alarm, proc, sink, seen, call >>

\* ---------------------------------------------------- repository directory
\* pageRepos.filter(repo => !settings.ignoreForks || !repo.fork)
FilterForks(settings, pageRepos) ==
  SelectSeq(pageRepos, LAMBDA r : ~settings.ignoreForks \/ ~IsFork(r))

\* fetchUserRepositories / fetchGitLabProjects for a listing that fits one
\* page: the request for page 1 is answered `ans`, the request for page 2 (the
\* empty page that ends the loop) is answered normally.  A thrown call or a
\* response that is not ok throws; on success the list is cached with its time.
FetchUserRepositories(platform, settings, token, r, t, ans) ==
  LET c1 == Fetch(platform, token, r, t, ans)
      c2 == Fetch(platform, token, c1.rate, t, OkAnswer)
      ok == Ok(c1) /\ Ok(c2)
  IN [ok |-> ok,
      list |-> IF ok THEN FilterForks(settings, Served(platform)) ELSE << >>,
      rate |-> IF Ok(c1) THEN c2.rate ELSE c1.rate,
      record |-> IF Ok(c1) /\ c2.persist THEN RateRecord(c2) ELSE RateRecord(c1),
      persist |-> c1.persist,
      sent |-> (IF c1.sent THEN 1 ELSE 0) + (IF Ok(c1) /\ c2.sent THEN 1 ELSE 0)]

StaleAtTtl(cache, t) == ~cache.has \/ t - cache.updated >= CacheTtlMs

\* Date.now() - repositoriesUpdated > 60 * 60 * 1000
Stale(cache, t) == ~cache.has \/ t - cache.updated > CacheTtlMs

\* A share of getRepositories() that filters the cached list under the
\* settings at the time of the read.
DirectoryFilteredAtUse(platform, st, r, t, ans) ==
  LET token == st[TokenKey(platform)]
      cache == st[CacheKey(platform)]
      f == FetchUserRepositories(platform, st.settings, token, r, t, ans)
  IN IF token = None
       THEN [list |-> << >>, cache |-> cache, rate |-> r, persist |-> FALSE,
             record |-> NoRateRecord, sent |-> 0, asked |-> FALSE]
     ELSE IF ~Stale(cache, t)
       THEN [list |-> FilterForks(st.settings, cache.list), cache |-> cache, rate |-> r,
             persist |-> FALSE, record |-> NoRateRecord, sent |-> 0, asked |-> FALSE]
     ELSE [list |-> f.list,
           cache |-> IF f.ok THEN [has |-> TRUE, list |-> f.list, updated |-> t] ELSE cache,
           rate |-> f.rate, persist |-> f.persist, record |-> f.record,
           sent |-> f.sent, asked |-> TRUE]

\* One platform's share of getRepositories(): nothing without a token, the
\* cached list while it is fresh, else a refetch whose failure is caught and
\* contributes nothing.
Directory(platform, st, r, t, ans) ==
  LET token == st[TokenKey(platform)]
      cache == st[CacheKey(platform)]
      f == FetchUserRepositories(platform, st.settings, token, r, t, ans)
  IN IF token = None
       THEN [list |-> << >>, cache |-> cache, rate |-> r, persist |-> FALSE,
             record |-> NoRateRecord, sent |-> 0, asked |-> FALSE]
     ELSE IF ~Stale(cache, t)
       THEN [list |-> cache.list, cache |-> cache, rate |-> r, persist |-> FALSE,
             record |-> NoRateRecord, sent |-> 0, asked |-> FALSE]
     ELSE [list |-> f.list,
           cache |-> IF f.ok THEN [has |-> TRUE, list |-> f.list, updated |-> t] ELSE cache,
           rate |-> f.rate, persist |-> f.persist, record |-> f.record,
           sent |-> f.sent, asked |-> TRUE]

\* What a platform answers to the requests of one listing: `pages` pages with
\* repositories and empty pages after them, the request for page `failAt`
\* (0: none) answered `ans` and every other request normally.
Paging(pages, failAt, ans) == [pages |-> pages, failAt |-> failAt, ans |-> ans]
OnePage == Paging(1, 0, OkAnswer)

\* A platform with more pages of repositories than the loop asks for.
ManyPages == PageCap + 1

\* The repositories of a page: the listing on page 1, one more repository on
\* each page after it.
PageOf(platform, page, pages) ==
  IF page > pages THEN << >>
  ELSE IF page = 1 THEN Served(platform)
  ELSE << Repo(platform, "a/z") >>

RECURSIVE PageLoopNoCap(_, _, _, _, _, _, _)
PageLoopNoCap(platform, settings, token, t, paging, page, got) ==
  LET c == Fetch(platform, token, got.rate, t,
                 IF page = paging.failAt THEN paging.ans ELSE OkAnswer)
      pageRepos == PageOf(platform, page, paging.pages)
      next == [got EXCEPT !.rate = c.rate,
                          !.record = IF c.persist THEN RateRecord(c) ELSE @,
                          !.persist = @ \/ c.persist,
                          !.asked = IF c.sent THEN Append(@, page) ELSE @]
  IN IF ~Ok(c) THEN [next EXCEPT !.ok = FALSE, !.list = << >>]
     ELSE IF Len(pageRepos) = 0 THEN next
     ELSE PageLoopNoCap(platform, settings, token, t, paging, page + 1,
                        [next EXCEPT !.list = @ \o FilterForks(settings, pageRepos)])

\* The while loop of fetchUserRepositories / fetchGitLabProjects from `page`
\* on; got.asked lists the page numbers requested so far.
RECURSIVE PageLoop(_, _, _, _, _, _, _)
PageLoop(platform, settings, token, t, paging, page, got) ==
  LET c == Fetch(platform, token, got.rate, t,
                 IF page = paging.failAt THEN paging.ans ELSE OkAnswer)
      pageRepos == PageOf(platform, page, paging.pages)
      next == [got EXCEPT !.rate = c.rate,
                          !.record = IF c.persist THEN RateRecord(c) ELSE @,
                          !.persist = @ \/ c.persist,
                          !.asked = IF c.sent THEN Append(@, page) ELSE @]
  IN IF ~Ok(c) THEN [next EXCEPT !.ok = FALSE, !.list = << >>]
     ELSE IF Len(pageRepos) = 0 THEN next
     ELSE IF page + 1 > PageCap THEN [next EXCEPT !.list = @ \o FilterForks(settings, pageRepos)]
     ELSE PageLoop(platform, settings, token, t, paging, page + 1,
                   [next EXCEPT !.list = @ \o FilterForks(settings, pageRepos)])

\* fetchUserRepositories / fetchGitLabProjects for any number of pages.
FetchAllPages(platform, settings, token, r, t, paging) ==
  PageLoop(platform, settings, token, t, paging, 1,
           [ok |-> TRUE, list |-> << >>, rate |-> r, record |-> NoRateRecord,
            persist |-> FALSE, asked |-> << >>])

ReadDirectoryNoCatch(platform, st, r, t, paging) ==
  LET token == st[TokenKey(platform)]
      cache == st[CacheKey(platform)]
      f == FetchAllPages(platform, st.settings, token, r, t, paging)
      quiet == [list |-> << >>, cache |-> cache, rate |-> r, persist |-> FALSE,
                record |-> NoRateRecord, asked |-> << >>, read |-> "none", ok |-> TRUE,
                thrown |-> FALSE]
  IN IF token = None THEN quiet
     ELSE IF ~Stale(cache, t) THEN [quiet EXCEPT !.list = cache.list, !.read = "cache"]
     ELSE [list |-> f.list,
           cache |-> IF f.ok THEN [has |-> TRUE, list |-> f.list, updated |-> t] ELSE cache,
           rate |-> f.rate, persist |-> f.persist, record |-> f.record,
           asked |-> f.asked, read |-> "fetch", ok |-> f.ok, thrown |-> ~f.ok]

\* getGitHubRepositories / getGitLabRepositories behind the test of
\* getRepositories for a stored token: nothing without a token, the cached
\* list while it is fresh, else a refetch that caches its list on success and
\* whose failure is caught and contributes nothing (thrown tells whether the
\* read rejects in getRepositories).
ReadDirectory(platform, st, r, t, paging) ==
  LET token == st[TokenKey(platform)]
      cache == st[CacheKey(platform)]
      f == FetchAllPages(platform, st.settings, token, r, t, paging)
      quiet == [list |-> << >>, cache |-> cache, rate |-> r, persist |-> FALSE,
                record |-> NoRateRecord, asked |-> << >>, read |-> "none", ok |-> TRUE,
                thrown |-> FALSE]
  IN IF token = None THEN quiet
     ELSE IF ~Stale(cache, t) THEN [quiet EXCEPT !.list = cache.list, !.read = "cache"]
     ELSE [list |-> f.list,
           cache |-> IF f.ok THEN [has |-> TRUE, list |-> f.list, updated |-> t] ELSE cache,
           rate |-> f.rate, persist |-> f.persist, record |-> f.record,
           asked |-> f.asked, read |-> "fetch", ok |-> f.ok, thrown |-> FALSE]

\* -------------------------------------------------------- message handlers
\* An authenticate that keeps the token after a response that is not ok.
AuthenticateKeepToken(platform, st, r, t, ans) ==
  LET c == Fetch(platform, "tok", r, t, ans)
      f == FetchUserRepositories(platform, st.settings, "tok", c.rate, t, OkAnswer)
      s1 == [st EXCEPT ![TokenKey(platform)] = "tok"]
      s2 == IF c.persist THEN [s1 EXCEPT ![RateKey(platform)] = RateRecord(c)] ELSE s1
      s3 == [s2 EXCEPT ![UserKey(platform)] = Me]
      s4 == IF f.persist THEN [s3 EXCEPT ![RateKey(platform)] = f.record] ELSE s3
      s5 == [s4 EXCEPT ![CacheKey(platform)] = [has |-> TRUE, list |-> f.list, updated |-> t]]
      reply == [storage |-> s2, rate |-> c.rate, armed |-> FALSE, success |-> FALSE,
                responded |-> ~Thrown(c), status |-> c.status]
  IN IF Thrown(c) \/ ~Ok(c) THEN reply
     ELSE IF ~f.ok THEN [reply EXCEPT !.storage = s4, !.rate = f.rate]
     ELSE [reply EXCEPT !.storage = s5, !.rate = f.rate, !.armed = TRUE, !.success = TRUE]

\* authenticateGitHub / authenticateGitLab with a token, on the store st and
\* the client's state r: store the token, ask /user, on a response that is not
\* ok clear the token and report failure; else store the identity, fetch the
\* repositories and arm the alarm.  Anything thrown on the way ends the handler
\* in handleMessage's catch, which reports failure, with what was stored so
\* far.  armed tells whether startPolling() was called.
AuthenticateOutcome(platform, st, r, t, ans) ==
  LET c == Fetch(platform, "tok", r, t, ans)
      f == FetchUserRepositories(platform, st.settings, "tok", c.rate, t, OkAnswer)
      s1 == [st EXCEPT ![TokenKey(platform)] = "tok"]
      s2 == IF c.persist THEN [s1 EXCEPT ![RateKey(platform)] = RateRecord(c)] ELSE s1
      s3 == [s2 EXCEPT ![UserKey(platform)] = Me]
      s4 == IF f.persist THEN [s3 EXCEPT ![RateKey(platform)] = f.record] ELSE s3
      s5 == [s4 EXCEPT ![CacheKey(platform)] = [has |-> TRUE, list |-> f.list, updated |-> t]]
      reply == [storage |-> s2, rate |-> c.rate, armed |-> FALSE, success |-> FALSE,
                responded |-> ~Thrown(c), status |-> c.status]
  IN IF Thrown(c) THEN reply
     ELSE IF ~Ok(c) THEN [reply EXCEPT !.storage = [s2 EXCEPT ![TokenKey(platform)] = None]]
     ELSE IF ~f.ok THEN [reply EXCEPT !.storage = s4, !.rate = f.rate]
     ELSE [reply EXCEPT !.storage = s5, !.rate = f.rate, !.armed = TRUE, !.success = TRUE]

\* The first login to a platform.
Authenticate(platform, ans) ==
  LET o == AuthenticateOutcome(platform, storage, rate[platform], now, ans)
  IN /\ storage[TokenKey(platform)] = None
     /\ ans \in Answers(budget, now)
     /\ budget' = [budget EXCEPT !.faults = @ - Cost(ans)]
     /\ storage' = o.storage
     /\ rate' = [rate EXCEPT ![platform] = o.rate]
     /\ alarm' = (alarm \/ o.armed)
     /\ UNCHANGED << remote, now, proc, sink, seen, call >>

\* The message authenticateGitHub / authenticateGitLab at any moment, logged
\* in to the platform or not; call keeps the reply and what the request met.
AuthenticateMessage(platform, ans) ==
  LET o == AuthenticateOutcome(platform, storage, rate[platform], now, ans)
  IN /\ budget.calls > 0
     /\ budget' = [budget EXCEPT !.calls = @ - 1]
     /\ storage' = o.storage
     /\ rate' = [rate EXCEPT ![platform] = o.rate]
     /\ alarm' = (alarm \/ o.armed)
     /\ call' = [made |-> "authenticate", platform |-> platform, at |-> now,
                 responded |-> o.responded, status |-> o.status,
                 success |-> o.success, armed |-> o.armed]
     /\ UNCHANGED << remote, now, proc, sink, seen >>

\* updateSettings with one flag flipped: the stored settings are replaced by
\* the current ones overlaid with the message's.
UpdateSettings(flag) ==
  /\ budget.edits > 0
  /\ storage' = [storage EXCEPT !.settings[flag] = ~@]
  /\ budget' = [budget EXCEPT !.edits = @ - 1]
  /\ UNCHANGED << rate, remote, now, alarm, proc, sink, seen, call >>

\* An updateSettings that arms the alarm with the period it read before the
\* settings were written.
UpdateCheckIntervalStalePeriod(minutes) ==
  /\ budget.edits > 0 /\ minutes # storage.settings.checkInterval
  /\ storage' = [storage EXCEPT !.settings.checkInterval = minutes]
  /\ alarm' = TRUE
  /\ call' = [cleared |-> TRUE, periodInMinutes |-> storage.settings.checkInterval]
  /\ budget' = [budget EXCEPT !.edits = @ - 1]
  /\ UNCHANGED << rate, remote, now, proc, sink, seen >>

\* updateSettings with { checkInterval: minutes }, as the options page sends
\* when the interval is changed: the settings are written, then stopPolling()
\* and startPolling(), which reads the settings again and creates the alarm
\* with their period.  call keeps the alarm calls made.
UpdateCheckInterval(minutes) ==
  /\ budget.edits > 0 /\ minutes # storage.settings.checkInterval
  /\ storage' = [storage EXCEPT !.settings.checkInterval = minutes]
  /\ alarm' = TRUE
  /\ call' = [cleared |-> TRUE, periodInMinutes |-> minutes]
  /\ budget' = [budget EXCEPT !.edits = @ - 1]
  /\ UNCHANGED << rate, remote, now, proc, sink, seen >>

\* The answers a listing can meet: one page, two pages or more pages than the
\* loop asks for, and, while failures are left, two pages with the request for
\* the first or for the second failing.
Pagings(b, t) ==
  { Paging(n, 0, OkAnswer) : n \in {1, 2, ManyPages} }
    \cup (IF b.faults > 0
          THEN { Paging(2, k, a) : k \in {1, 2}, a \in Faulty(t) }
          ELSE {})

\* The message getRepositories: getRepositories() with GitHub's share, then
\* GitLab's; call keeps what the store held before and what each platform's
\* read did.
GetRepositories ==
  \E gh \in { << pg, ReadDirectory("github", storage, rate["github"], now, pg) >> :
                 pg \in Pagings(budget, now) },
     gl \in { << pg, ReadDirectory("gitlab", storage, rate["gitlab"], now, pg) >> :
                 pg \in Pagings(budget, now) } :
    LET ph == gh[1]
        pl == gl[1]
        dh == gh[2]
        dl == gl[2]
        d == [github |-> dh, gitlab |-> dl]
        s1 == [storage EXCEPT !.repositories = dh.cache, !.gitlabRepositories = dl.cache]
        s2 == IF dh.persist THEN [s1 EXCEPT !.rateLimit = dh.record] ELSE s1
        s3 == IF dl.persist THEN [s2 EXCEPT !.gitlabRateLimit = dl.record] ELSE s2
    IN /\ budget.calls > 0
       /\ (dh.read # "fetch" => ph = OnePage) /\ (dl.read # "fetch" => pl = OnePage)
       /\ Cost(ph.ans) + Cost(pl.ans) <= budget.faults
       /\ budget' = [budget EXCEPT !.calls = @ - 1,
                                   !.faults = @ - (Cost(ph.ans) + Cost(pl.ans))]
       /\ storage' = s3
       /\ rate' = [rate EXCEPT !["github"] = dh.rate, !["gitlab"] = dl.rate]
       /\ call' = [made |-> TRUE, at |-> now,
                   token |-> [pf \in Platforms |-> storage[TokenKey(pf)]],
                   cache |-> [pf \in Platforms |-> storage[CacheKey(pf)]],
                   paging |-> [github |-> ph, gitlab |-> pl],
                   read |-> [pf \in Platforms |-> d[pf].read],
                   ok |-> [pf \in Platforms |-> d[pf].ok],
                   asked |-> [pf \in Platforms |-> d[pf].asked],
                   part |-> [pf \in Platforms |-> d[pf].list],
                   repos |-> IF dh.thrown \/ dl.thrown THEN << >> ELSE dh.list \o dl.list,
                   success |-> ~dh.thrown /\ ~dl.thrown]
       /\ UNCHANGED << remote, now, alarm, proc, sink, seen >>

\* The options page's switch of one repository: enabledRepos[key] = isEnabled
\* on the settings just read, sent with updateSettings.  The page writes the
\* composite key; its older form and older versions wrote the plain full_name.
ToggleRepo(key, isEnabled) ==
  /\ budget.edits > 0
  /\ storage' = [storage EXCEPT !.settings.enabledRepos = Put(@, key, isEnabled)]
  /\ budget' = [budget EXCEPT !.edits = @ - 1]
  /\ UNCHANGED << rate, remote, now, alarm, proc, sink, seen, call >>

\* ---------------------------------------------------------------- dispatch
\* `${platform}-commit-${repo.full_name}-${shortSha}` and
\* `${platform}-release-${repo.full_name}-${release.id}`
NotificationId(kind, result) ==
  << result.repo.platform, kind, result.repo.full_name, result.id >>

\* The history without the cut: the record goes in front and nothing is dropped.
StoreNotificationHistoryUncut(notificationHistory, notification, t) ==
  << [id |-> notification.id, type |-> notification.type, timestamp |-> t] >>
    \o notificationHistory

\* storeNotificationHistory: the record goes in front with the time of the
\* call, the list is cut to its first 100 entries.
StoreNotificationHistory(notificationHistory, notification, t) ==
  Take(<< [id |-> notification.id, type |-> notification.type, timestamp |-> t] >>
         \o notificationHistory, HistoryCap)

\* The message clearBadge (and the command mark-all-read): clearUnreadCount()
\* stores unreadCount: 0.
ClearUnreadCount ==
  /\ storage' = [storage EXCEPT !.unreadCount = 0]
  /\ UNCHANGED << rate, remote, now, alarm, proc, sink, budget, seen, call >>

\* logout(): the tokens, identities, repository caches and both last-seen maps
\* are removed from the store, then stopPolling().  The in-memory rate-limit
\* state of the clients stays as it is.
Logout ==
  /\ storage' = [storage EXCEPT !.githubToken = None, !.gitlabToken = None,
                                !.userData = None, !.gitlabUserData = None,
                                !.repositories = NoCache, !.gitlabRepositories = NoCache,
                                !.lastCommits = << >>, !.lastReleases = << >>]
  /\ alarm' = FALSE
  /\ UNCHANGED << rate, remote, now, proc, sink, budget, seen, call >>

\* logoutGitHub: the GitHub token, identity and repository cache and the whole
\* lastCommits map are removed; polling stops unless a GitLab token is stored.
LogoutGitHub ==
  /\ storage' = [storage EXCEPT !.githubToken = None, !.userData = None,
                                !.repositories = NoCache, !.lastCommits = << >>]
  /\ alarm' = (alarm /\ storage.gitlabToken # None)
  /\ UNCHANGED << rate, remote, now, proc, sink, budget, seen, call >>

\* logoutGitLab: the GitLab token, identity and repository cache are removed
\* (and the key gitlabLastCommits, which nothing writes); polling stops unless
\* a GitHub token is stored.
LogoutGitLab ==
  /\ storage' = [storage EXCEPT !.gitlabToken = None, !.gitlabUserData = None,
                                !.gitlabRepositories = NoCache]
  /\ alarm' = (alarm /\ storage.githubToken # None)
  /\ UNCHANGED << rate, remote, now, proc, sink, budget, seen, call >>

\* resetReleaseCache: setStorage({ lastReleases: {} }).
ResetReleaseCache ==
  /\ storage' = [storage EXCEPT !.lastReleases = << >>]
  /\ UNCHANGED << rate, remote, now, alarm, proc, sink, budget, seen, call >>

\* One call of fetchGitHub / fetchGitLab with whatever token is stored, the
\* network answering `ans`; call keeps what the caller observed.
ClientCall(platform, ans) ==
  LET token == storage[TokenKey(platform)]
      c == Fetch(platform, token, rate[platform], now, ans)
  IN /\ budget.calls > 0
     /\ (~c.sent => ans = OkAnswer)
     /\ budget' = [budget EXCEPT !.calls = @ - 1]
     /\ rate' = [rate EXCEPT ![platform] = c.rate]
     /\ storage' = IF c.persist THEN [storage EXCEPT ![RateKey(platform)] = RateRecord(c)]
                   ELSE storage
     /\ call' = [made |-> TRUE, platform |-> platform, token |-> token, at |-> now,
                 before |-> rate[platform], outcome |-> c.outcome, sent |-> c.sent,
                 wait |-> c.wait, ans |-> ans]
     /\ UNCHANGED << remote, now, alarm, proc, sink, seen >>

\* The k-th record handed to storeNotificationHistory.
Note(k) == [id |-> << "github", "commits", "a/x", Sha(k) >>, type |-> "commits"]
Appended == MaxAppends - budget.appends

\* storeNotificationHistory(notification), its read and its write with nothing
\* in between.
AppendRecord ==
  /\ budget.appends > 0
  /\ budget' = [budget EXCEPT !.appends = @ - 1]
  /\ storage' = [storage EXCEPT !.notificationHistory =
                   StoreNotificationHistory(@, Note(Appended + 1), now)]
  /\ UNCHANGED << rate, remote, now, alarm, proc, sink, seen, call >>


\* ------------------------------------------------------- notification ids
\* Strings are sequences of characters.
\* String(n) of a number, as the template literal converts release.id.
RECURSIVE NumberToString(_)
NumberToString(n) ==
  LET digits == << "0", "1", "2", "3", "4", "5", "6", "7", "8", "9" >>
  IN IF n < 10 THEN << digits[n + 1] >>
     ELSE NumberToString(n \div 10) \o << digits[(n % 10) + 1] >>

\* s.substring(start, end)
Substring(s, start, end) == SubSeq(s, start + 1, Min(end, Len(s)))

\* repo.platform || 'github'
PlatformText(platform) ==
  IF platform = "gitlab" THEN << "g", "i", "t", "l", "a", "b" >> ELSE << "g", "i", "t", "h", "u", "b" >>

\* sendCommitNotification: `${platform}-commit-${repo.full_name}-${shortSha}`
\* with shortSha = commit.sha.substring(0, 7)
CommitNotificationId(repo, commit) ==
  PlatformText(repo.platform) \o << "-", "c", "o", "m", "m", "i", "t", "-" >> \o repo.full_name
    \o << "-" >> \o Substring(commit.sha, 0, 7)

\* sendReleaseNotification: `${platform}-release-${repo.full_name}-${release.id}`;
\* release.id is a number (GitHub release), the tag name (GitLab release) or
\* the tag's commit id (tag promoted to a release).
ReleaseNotificationId(repo, release) ==
  PlatformText(repo.platform) \o << "-", "r", "e", "l", "e", "a", "s", "e", "-" >> \o repo.full_name
    \o << "-" >>
    \o (IF "number" \in DOMAIN release.id THEN NumberToString(release.id.number)
        ELSE release.id.text)

\* What the dispatcher is handed: (repo, commit, priority) or (repo, release),
\* for repositories a/x, a/x-rc and a/y of either platform, commit shas of
\* which two share their first seven characters, and release ids as the
\* platforms give them: a number or a tag's commit id (GitHub), a tag name or
\* a tag's commit id (GitLab).
ChangeEvents ==
  LET names == { << "a", "/", "x" >>, << "a", "/", "x", "-", "r", "c" >>, << "a", "/", "y" >> }
      shas == { << "a", "b", "c", "1", "2", "3", "4", "f" >>, << "a", "b", "c", "1", "2", "3", "4", "e" >>, << "d", "e", "f", "5", "6", "7", "8", "a" >> }
      ids == [github |-> { [number |-> 1], [number |-> 12], [text |-> << "d", "e", "f", "5", "6", "7", "8", "a" >>] },
              gitlab |-> { [text |-> << "1" >>], [text |-> << "r", "c", "-", "1" >>],
                           [text |-> << "d", "e", "f", "5", "6", "7", "8", "a" >>] }]
  IN { [kind |-> "commit", repo |-> [platform |-> pf, full_name |-> n],
        record |-> [sha |-> s], priority |-> pr] :
         pf \in Platforms, n \in names, s \in shas, pr \in {"high", "low"} }
     \cup
     UNION { { [kind |-> "release", repo |-> [platform |-> pf, full_name |-> n],
                record |-> [id |-> i], priority |-> None] :
                 n \in names, i \in ids[pf] } : pf \in Platforms }

\* The identifier handed to chrome.notifications.create for an event.
IdOf(event) ==
  IF event.kind = "commit" THEN CommitNotificationId(event.repo, event.record)
  ELSE ReleaseNotificationId(event.repo, event.record)

\* sendCommitNotification / sendReleaseNotification for the k-th of the two
\* events at hand, notifications being switched on.
SendNotification(k) ==
  /\ call.ids[k] = << >>
  /\ call' = [call EXCEPT !.ids[k] = IdOf(call.events[k])]
  /\ sink' = sink \cup {IdOf(call.events[k])}
  /\ UNCHANGED << storage, rate, remote, now, alarm, proc, budget, seen >>

\* ------------------------------------------------------------- classifier
\* commit-analysis.js.  A text is the sequence of its characters.
UpperCase == << "A", "B", "C", "D", "E", "F", "G", "H", "I", "J", "K", "L", "M", "N", "O", "P", "Q", "R", "S", "T", "U", "V", "W", "X", "Y", "Z" >>
LowerCase == << "a", "b", "c", "d", "e", "f", "g", "h", "i", "j", "k", "l", "m", "n", "o", "p", "q", "r", "s", "t", "u", "v", "w", "x", "y", "z" >>

\* String.prototype.toLowerCase
ToLowerCase(s) ==
  [i \in 1..Len(s) |->
     IF \E k \in 1..Len(UpperCase) : UpperCase[k] = s[i]
     THEN LowerCase[CHOOSE k \in 1..Len(UpperCase) : UpperCase[k] = s[i]]
     ELSE s[i]]

\* String.prototype.includes
Includes(s, word) ==
  \E i \in 1..(Len(s) - Len(word) + 1) : SubSeq(s, i, i + Len(word) - 1) = word

HIGH_PRIORITY_KEYWORDS ==
  << << "f", "i", "x" >>,
     << "h", "o", "t", "f", "i", "x" >>,
     << "b", "r", "e", "a", "k", "i", "n", "g" >>,
     << "c", "r", "i", "t", "i", "c", "a", "l" >>,
     << "u", "r", "g", "e", "n", "t" >>,
     << "s", "e", "c", "u", "r", "i", "t", "y" >> >>

lowKeywords ==
  << << "f", "o", "r", "m", "a", "t" >>,
     << "f", "o", "r", "m", "a", "t", "t", "i", "n", "g" >>,
     << "s", "t", "y", "l", "e" >>,
     << "c", "h", "o", "r", "e" >>,
     << "r", "e", "f", "a", "c", "t", "o", "r" >>,
     << "r", "e", "n", "a", "m", "e" >> >>

\* The commit messages of the model: no keyword; an urgency word in upper
\* case; a low-urgency word with a capital; "fix" inside another word next to
\* a low-urgency word.
Messages ==
  { << "a", "d", "d", " ", "v", "i", "e", "w" >>,
    << "U", "R", "G", "E", "N", "T" >>,
    << "R", "e", "n", "a", "m", "e" >>,
    << "p", "r", "e", "f", "i", "x", " ", "s", "t", "y", "l", "e" >> }


\* The changed files of the model: a file of each family, a file of two
\* families, files of every critical weight, a file whose first critical
\* pattern is lighter than a later one, and plain code files that delete much,
\* that delete much but add 0.3 times as much, and that change many lines.
File(name, a, d) == [filename |-> name, additions |-> a, deletions |-> d]

ChangedFiles ==
  { File("README.md", 5, 0),
    File("requirements.txt", 2, 2),
    File("package.json", 2, 2),
    File(".github/workflows/ci.yml", 3, 1),
    File("tests/login.test.js", 20, 0),
    File("locales/en.json", 4, 4),
    File("docs/security.md", 5, 120),
    File("src/auth/session.js", 10, 0),
    File("src/session/kernel.js", 10, 0),
    File("src/index.js", 10, 0),
    File("src/api/users.js", 10, 0),
    File("src/routes/home.js", 10, 0),
    File("src/util.js", 20, 150),
    File("src/list.js", 45, 150),
    File("src/view.js", 400, 101) }

\* filePatterns: the families that have a pattern matching the file name, in
\* the order of the table's keys.
FamilyOrder == << "docs", "config", "ci", "tests", "localization" >>

Matching(name) ==
  CASE name = "README.md" -> {"docs"}
    [] name = "requirements.txt" -> {"docs", "config"}
    [] name = "package.json" -> {"config"}
    [] name = ".github/workflows/ci.yml" -> {"ci"}
    [] name = "tests/login.test.js" -> {"tests"}
    [] name = "locales/en.json" -> {"localization"}
    [] name = "docs/security.md" -> {"docs"}
    [] OTHER -> {}

\* criticalPatterns: the weights of the patterns matching the file name, in
\* the order of the table.
CriticalHits(name) ==
  CASE name = "tests/login.test.js" -> << 3 >>
    [] name = "docs/security.md" -> << 3 >>
    [] name = "src/auth/session.js" -> << 3, 2 >>
    [] name = "src/session/kernel.js" -> << 2, 3 >>
    [] name = "src/index.js" -> << 2 >>
    [] name = "src/api/users.js" -> << 1 >>
    [] name = "src/routes/home.js" -> << 1 >>
    [] OTHER -> << >>

\* The inner loop over filePatterns: the first family with a matching pattern,
\* "code" when there is none.
Categorize(name) ==
  LET hits == { i \in 1..Len(FamilyOrder) : FamilyOrder[i] \in Matching(name) }
  IN IF hits = {} THEN "code"
     ELSE FamilyOrder[CHOOSE i \in hits : \A j \in hits : i <= j]

Categories == Range(FamilyOrder) \cup {"code"}

AnyFile(categories, family, totalFiles) == categories[family] > 0

\* categories.<family> === totalFiles
AllFiles(categories, family, totalFiles) == categories[family] = totalFiles

\* details: {}
NoDetails == [x \in {} |-> 0]

\* analyzeCommitType past its test of the parents: the changed files.
AnalyzeChangedFiles(commit) ==
  LET totalFiles == Cardinality(commit.files)
      categories == [c \in Categories |->
                       Cardinality({ f \in commit.files : Categorize(f.filename) = c })]
      single == { i \in 1..Len(FamilyOrder) : AllFiles(categories, FamilyOrder[i], totalFiles) }
  IN IF totalFiles > 0
     THEN IF single # {}
          THEN [type |-> FamilyOrder[CHOOSE i \in single : \A j \in single : i <= j],
                details |-> [fileCount |-> totalFiles]]
          ELSE [type |-> "code",
                details |-> [fileCount |-> totalFiles, categories |-> categories,
                             additions |-> commit.stats.additions,
                             deletions |-> commit.stats.deletions]]
     ELSE [type |-> "code", details |-> NoDetails]

AnalyzeCommitTypeNoMerge(commit) == AnalyzeChangedFiles(commit)

\* analyzeCommitType(commit)
AnalyzeCommitType(commit) ==
  IF commit.parents >= 2
  THEN [type |-> "merge", details |-> [parentCount |-> commit.parents]]
  ELSE AnalyzeChangedFiles(commit)

Max(a, b) == IF a >= b THEN a ELSE b

RECURSIVE MaxWeightOf(_)
MaxWeightOf(criticalFiles) ==
  IF criticalFiles = {} THEN 0
  ELSE LET f == CHOOSE x \in criticalFiles : TRUE
       IN Max(Head(CriticalHits(f.filename)), MaxWeightOf(criticalFiles \ {f}))

\* analyzeCriticalFiles(files): a file counts with its first matching pattern.
\* Without files the result has no isHighPriority, which reads as false.
AnalyzeCriticalFiles(files) ==
  LET criticalFiles == { f \in files : CriticalHits(f.filename) # << >> }
      maxWeight == MaxWeightOf(criticalFiles)
  IN IF files = {}
     THEN [hasCritical |-> FALSE, criticalFiles |-> {}, maxWeight |-> 0,
           isHighPriority |-> FALSE]
     ELSE [hasCritical |-> criticalFiles # {}, criticalFiles |-> criticalFiles,
           maxWeight |-> maxWeight,
           isHighPriority |-> maxWeight >= 3 \/ Cardinality(criticalFiles) >= 3]

\* deletions > 100 && additions < deletions * 0.3
LargeDeletion(file) == file.deletions > 100 /\ 10 * file.additions < 3 * file.deletions

\* details.<name>, undefined reading as 0
Detail(details, name) == IF name \in DOMAIN details THEN details[name] ELSE 0

HasKeyword(message, keywords) ==
  \E k \in 1..Len(keywords) : Includes(message, keywords[k])

ClassifyCommitPriorityKeywordsFirst(commit) ==
  LET type == AnalyzeCommitType(commit).type
      details == AnalyzeCommitType(commit).details
      message == ToLowerCase(commit.message)
      criticalAnalysis == AnalyzeCriticalFiles(commit.files)
  IN IF HasKeyword(message, HIGH_PRIORITY_KEYWORDS) THEN "high"
     ELSE IF type \in {"merge", "docs", "config", "ci", "localization"} THEN "low"
     ELSE IF type = "tests" THEN "medium"
     ELSE IF criticalAnalysis.isHighPriority THEN "high"
     ELSE IF commit.files # {} /\ \E f \in commit.files : LargeDeletion(f) THEN "high"
     ELSE IF /\ commit.files # {}
             /\ criticalAnalysis.hasCritical
             /\ Cardinality(criticalAnalysis.criticalFiles) >= 2 THEN "high"
     ELSE IF criticalAnalysis.hasCritical THEN "medium"
     ELSE IF Detail(details, "additions") + Detail(details, "deletions") > 500 THEN "medium"
     ELSE IF HasKeyword(message, lowKeywords) THEN "low"
     ELSE "medium"

ClassifyCommitPriorityLowKeywordsEarly(commit) ==
  LET type == AnalyzeCommitType(commit).type
      details == AnalyzeCommitType(commit).details
      message == ToLowerCase(commit.message)
      criticalAnalysis == AnalyzeCriticalFiles(commit.files)
  IN IF type \in {"merge", "docs", "config", "ci", "localization"} THEN "low"
     ELSE IF type = "tests" THEN "medium"
     ELSE IF criticalAnalysis.isHighPriority THEN "high"
     ELSE IF commit.files # {} /\ \E f \in commit.files : LargeDeletion(f) THEN "high"
     ELSE IF /\ commit.files # {}
             /\ criticalAnalysis.hasCritical
             /\ Cardinality(criticalAnalysis.criticalFiles) >= 2 THEN "high"
     ELSE IF HasKeyword(message, HIGH_PRIORITY_KEYWORDS) THEN "high"
     ELSE IF HasKeyword(message, lowKeywords) THEN "low"
     ELSE IF criticalAnalysis.hasCritical THEN "medium"
     ELSE IF Detail(details, "additions") + Detail(details, "deletions") > 500 THEN "medium"
     ELSE "medium"

ClassifyCommitPriorityLowFirst(commit) ==
  LET type == AnalyzeCommitType(commit).type
      details == AnalyzeCommitType(commit).details
      message == ToLowerCase(commit.message)
      criticalAnalysis == AnalyzeCriticalFiles(commit.files)
  IN IF type \in {"merge", "docs", "config", "ci", "localization"} THEN "low"
     ELSE IF type = "tests" THEN "medium"
     ELSE IF criticalAnalysis.isHighPriority THEN "high"
     ELSE IF commit.files # {} /\ \E f \in commit.files : LargeDeletion(f) THEN "high"
     ELSE IF /\ commit.files # {}
             /\ criticalAnalysis.hasCritical
             /\ Cardinality(criticalAnalysis.criticalFiles) >= 2 THEN "high"
     ELSE IF HasKeyword(message, HIGH_PRIORITY_KEYWORDS) THEN "high"
     ELSE IF criticalAnalysis.hasCritical THEN "medium"
     ELSE IF HasKeyword(message, lowKeywords) THEN "low"
     ELSE IF Detail(details, "additions") + Detail(details, "deletions") > 500 THEN "medium"
     ELSE "medium"

\* classifyCommitPriority(commit, repo, userData); repo and userData are not
\* read.
ClassifyCommitPriority(commit) ==
  LET type == AnalyzeCommitType(commit).type
      details == AnalyzeCommitType(commit).details
      message == ToLowerCase(commit.message)
      criticalAnalysis == AnalyzeCriticalFiles(commit.files)
  IN IF type \in {"merge", "docs", "config", "ci", "localization"} THEN "low"
     ELSE IF type = "tests" THEN "medium"
     ELSE IF criticalAnalysis.isHighPriority THEN "high"
     ELSE IF commit.files # {} /\ \E f \in commit.files : LargeDeletion(f) THEN "high"
     ELSE IF /\ commit.files # {}
             /\ criticalAnalysis.hasCritical
             /\ Cardinality(criticalAnalysis.criticalFiles) >= 2 THEN "high"
     ELSE IF HasKeyword(message, HIGH_PRIORITY_KEYWORDS) THEN "high"
     ELSE IF criticalAnalysis.hasCritical THEN "medium"
     ELSE IF Detail(details, "additions") + Detail(details, "deletions") > 500 THEN "medium"
     ELSE IF HasKeyword(message, lowKeywords) THEN "low"
     ELSE "medium"

RECURSIVE SumOf(_, _)
SumOf(files, field) ==
  IF files = {} THEN 0
  ELSE LET f == CHOOSE x \in files : TRUE
       IN f[field] + SumOf(files \ {f}, field)

\* The commit records a detector hands to the classifier: the platform's
\* totals of the lines added and deleted come with the list of changed files.
CommitRecords ==
  { [parents |-> n, files |-> fs, message |-> m,
     stats |-> [additions |-> SumOf(fs, "additions"), deletions |-> SumOf(fs, "deletions")]] :
      n \in 0..MaxParents,
      fs \in { x \in SUBSET ChangedFiles : Cardinality(x) <= MaxFiles },
      m \in Messages }

NoAnalysis == [type |-> None, details |-> NoDetails]

\* A call of analyzeCommitType on its own.
Analyze ==
  /\ call' = [call EXCEPT !.made = "analyzeCommitType",
                          !.analysis = AnalyzeCommitType(call.commit),
                          !.priority = None]
  /\ UNCHANGED << storage, rate, remote, now, alarm, proc, sink, budget, seen >>

\* A call of classifyCommitPriority.
Classify ==
  /\ call' = [call EXCEPT !.made = "classifyCommitPriority",
                          !.analysis = AnalyzeCommitType(call.commit),
                          !.priority = ClassifyCommitPriority(call.commit)]
  /\ UNCHANGED << storage, rate, remote, now, alarm, proc, sink, budget, seen >>

\* ----------------------------------------------------------------- sweeps
\* checkAllRepositoriesForCommits and checkAllRepositoriesForReleases, one
\* action per stretch between two awaits.  proc[p].kind tells which of the two
\* functions handler p is in.
Busy(p) == proc[p].pc # "idle"
\* Handler p is in one of its two sweeps.
Sweeping(p) == Busy(p) /\ proc[p].kind \in Kinds
IsAuthenticated == storage.githubToken # None \/ storage.gitlabToken # None

\* An alarm listener that starts the sweeps when a token is stored and
\* otherwise leaves the alarm armed.
AlarmFiresKeepsAlarm(p) ==
  /\ alarm /\ ~Busy(p) /\ budget.runs > 0
  /\ budget' = [budget EXCEPT !.runs = @ - 1]
  /\ proc' = IF storage.githubToken # None \/ storage.gitlabToken # None
               THEN [proc EXCEPT ![p] = [IdleProc EXCEPT !.pc = "begin", !.kind = "commits"]]
               ELSE proc
  /\ UNCHANGED << storage, rate, remote, now, alarm, sink, seen, call >>

\* Handlers take the first free slot.
FreeSlot(p) == ~Busy(p) /\ \A q \in Procs : (q = "h1" /\ p # q) => Busy(q)

Enter == [IdleProc EXCEPT !.pc = "begin", !.kind = "commits"]

\* The alarm listener: a sweep of each kind when a token is stored, else
\* stopPolling().
AlarmFires(p) ==
  /\ alarm /\ FreeSlot(p) /\ budget.runs > 0
  /\ budget' = [budget EXCEPT !.runs = @ - 1]
  /\ IF IsAuthenticated
       THEN proc' = [proc EXCEPT ![p] = Enter] /\ alarm' = alarm
       ELSE proc' = proc /\ alarm' = FALSE
  /\ UNCHANGED << storage, rate, remote, now, sink, seen, call >>

\* The checkNow message: the same two sweeps, whoever is logged in.
CheckNow(p) ==
  /\ FreeSlot(p) /\ budget.runs > 0
  /\ budget' = [budget EXCEPT !.runs = @ - 1]
  /\ proc' = [proc EXCEPT ![p] = Enter]
  /\ UNCHANGED << storage, rate, remote, now, alarm, sink, seen, call >>

\* const settings = await getSettings(); the early return when notifications
\* (or, for releases, release notifications) are switched off.
SweepBegin(p) ==
  LET me == proc[p]
      s == storage.settings
      off == ~s.notificationsEnabled
             \/ (me.kind = "releases" /\ ~s.releaseNotificationsEnabled)
      fresh == [IdleProc EXCEPT !.kind = me.kind, !.settings = s]
  IN /\ me.pc = "begin"
     /\ proc' = [proc EXCEPT ![p] =
          IF off THEN [fresh EXCEPT !.pc = "return", !.abort = "disabled"]
          ELSE [fresh EXCEPT !.pc = IF me.kind = "commits" THEN "user" ELSE "repos"]]
     /\ UNCHANGED << storage, rate, remote, now, alarm, sink, budget, seen, call >>

\* Commit sweep only: the identities of both platforms; return when neither
\* is stored.
SweepUser(p) ==
  LET me == proc[p]
      none == storage.userData = None /\ storage.gitlabUserData = None
  IN /\ me.pc = "user"
     /\ proc' = [proc EXCEPT ![p] =
          [me EXCEPT !.userData = storage.userData,
                     !.gitlabUserData = storage.gitlabUserData,
                     !.pc = IF none THEN "return" ELSE "repos",
                     !.abort = IF none THEN "nouser" ELSE None]]
     /\ UNCHANGED << storage, rate, remote, now, alarm, sink, budget, seen, call >>

\* const repos = await getRepositories(): GitHub's share, then GitLab's.  A
\* failing listing is caught inside and gives an empty share; a rejected read
\* of the tokens (isGitHubAuthenticated / isGitLabAuthenticated) is a failure
\* outside the per-repository handling.
SweepRepos(p) ==
  LET me == proc[p]
  IN /\ me.pc = "repos"
     /\ \/ \E ah, al \in Answers(budget, now) :
          LET dh == Directory("github", storage, rate["github"], now, ah)
              dl == Directory("gitlab", storage, rate["gitlab"], now, al)
              s1 == [storage EXCEPT !.repositories = dh.cache, !.gitlabRepositories = dl.cache]
              s2 == IF dh.persist THEN [s1 EXCEPT !.rateLimit = dh.record] ELSE s1
              s3 == IF dl.persist THEN [s2 EXCEPT !.gitlabRateLimit = dl.record] ELSE s2
          IN /\ (~dh.asked => ah = OkAnswer) /\ (~dl.asked => al = OkAnswer)
             /\ Cost(ah) + Cost(al) <= budget.faults
             /\ budget' = [budget EXCEPT !.faults = @ - (Cost(ah) + Cost(al))]
             /\ storage' = s3
             /\ rate' = [rate EXCEPT !["github"] = dh.rate, !["gitlab"] = dl.rate]
             /\ proc' = [proc EXCEPT ![p] =
                  [me EXCEPT !.repos = dh.list \o dl.list, !.pc = "load",
                             !.listed = @ + dh.sent + dl.sent]]
        \/ /\ budget.faults > 0
           /\ budget' = [budget EXCEPT !.faults = @ - 1]
           /\ proc' = [proc EXCEPT ![p] = [me EXCEPT !.pc = "catch", !.err = "storage read"]]
           /\ UNCHANGED << storage, rate >>
     /\ UNCHANGED << remote, now, alarm, sink, seen, call >>

\* A loop that hands every remaining repository to its detector at once.
BatchOfAll(repos, i) == (i + 1)..Len(repos)

\* The indices (1-based) of repos.slice(i, i + batchSize).
BatchOf(repos, i) == (i + 1)..Min(i + batchSize, Len(repos))

\* batch.map(repo => checkRepoFor...(repo, ...)) up to each detector's first
\* await: a disabled repository has its null result at once, the others have a
\* request in flight.  Past the last batch the loop is over.
StartBatch(me, i) ==
  LET idx == BatchOf(me.repos, i)
      off == { j \in idx : RepoDisabled(me.repos[j], me.settings) }
  IN IF idx = {}
       THEN [me EXCEPT !.pc = "store", !.i = i, !.pend = {}]
       ELSE [me EXCEPT !.pc = "batch", !.i = i, !.pend = idx \ off,
                       !.res = [j \in DOMAIN @ \cup off |->
                                  IF j \in off THEN NullResult(me.repos[j]) ELSE @[j]]]

\* const { lastCommits = {} } = await getStorage('lastCommits'), the copy
\* updatedLastCommits, and the first batch.  A rejected read is a failure
\* outside the per-repository handling.
SweepLoad(p) ==
  LET me == proc[p]
      map == storage[MapKey(me.kind)]
  IN /\ me.pc = "load"
     /\ \/ /\ proc' = [proc EXCEPT ![p] =
                StartBatch([me EXCEPT !.last = map, !.updated = map, !.queue = << >>], 0)]
           /\ budget' = budget
        \/ /\ budget.faults > 0
           /\ budget' = [budget EXCEPT !.faults = @ - 1]
           /\ proc' = [proc EXCEPT ![p] = [me EXCEPT !.pc = "catch", !.err = "storage read"]]
     /\ UNCHANGED << storage, rate, remote, now, alarm, sink, seen, call >>

\* What one or two successive client calls leave behind.
RateAfter(second, c1, c2) == IF second THEN c2.rate ELSE c1.rate
StoreAfter(st, platform, second, c1, c2) ==
  IF second /\ c2.persist THEN [st EXCEPT ![RateKey(platform)] = RateRecord(c2)]
  ELSE IF c1.persist THEN [st EXCEPT ![RateKey(platform)] = RateRecord(c1)]
  ELSE st
Sent(second, c1, c2) == (IF c1.sent THEN 1 ELSE 0) + (IF second /\ c2.sent THEN 1 ELSE 0)

\* The detector of repository j of the batch in flight settles.
DetectorSettle(p, j) ==
  LET me == proc[p]
      repo == me.repos[j]
      pf == repo.platform
      token == storage[TokenKey(pf)]
      known == Lookup(me.last, repo)
  IN /\ me.pc = "batch" /\ j \in me.pend
     /\ \E a1, a2 \in Answers(budget, now) :
          LET first == IF me.kind = "commits"
                         THEN ListStatus(repo, remote.head[repo])
                         ELSE ReleaseStatus(repo, remote.release[repo])
              c1 == Fetch(pf, token, rate[pf], now, WithStatus(a1, first))
              release == FetchLatestRelease(repo, remote.release[repo], c1)
              second == IF me.kind = "commits"
                          THEN NeedsDetail(remote.head[repo], known, c1)
                          ELSE release.tag = "null"
              c2 == Fetch(pf, token, c1.rate, now, a2)
              latest == IF me.kind = "commits"
                          THEN FetchLatestCommit(repo, remote.head[repo], known, c1, c2)
                        ELSE IF release.tag # "null" THEN release
                        ELSE FetchLatestTag(repo, remote.tag[repo], c2)
              result == IF me.kind = "commits"
                          THEN CheckRepoForNewCommits(repo, me.last, me.settings,
                                 me.userData, me.gitlabUserData, latest)
                          ELSE CheckRepoForNewReleases(repo, me.last, me.settings, latest)
          IN /\ (~c1.sent => a1 = OkAnswer)
             /\ (~(second /\ c2.sent) => a2 = OkAnswer)
             /\ Cost(a1) + Cost(a2) <= budget.faults
             /\ budget' = [budget EXCEPT !.faults = @ - (Cost(a1) + Cost(a2))]
             /\ rate' = [rate EXCEPT ![pf] = RateAfter(second, c1, c2)]
             /\ storage' = StoreAfter(storage, pf, second, c1, c2)
             /\ seen' = IF latest.tag \in {"null", "throw"} THEN seen
                        ELSE [seen EXCEPT ![me.kind][repo] = latest.id]
             /\ proc' = [proc EXCEPT ![p] =
                  [me EXCEPT !.pend = @ \ {j},
                             !.res = [k \in DOMAIN @ \cup {j} |-> IF k = j THEN result ELSE @[k]],
                             !.fetched = [k \in DOMAIN @ \cup {j} |-> IF k = j THEN latest ELSE @[k]],
                             !.reqs = @ + Sent(second, c1, c2)]]
     /\ UNCHANGED << remote, now, alarm, sink, call >>

\* A loop over the results that queues the new ones without advancing the copy
\* of the map for them.
RECURSIVE CollectWithoutAdvance(_, _, _, _, _)
CollectWithoutAdvance(res, j, hi, updated, queue) ==
  IF j > hi THEN [updated |-> updated, queue |-> queue]
  ELSE IF res[j].tag # "result" THEN CollectWithoutAdvance(res, j + 1, hi, updated, queue)
  ELSE IF res[j].isNew
    THEN CollectWithoutAdvance(res, j + 1, hi, updated, Append(queue, res[j]))
  ELSE CollectWithoutAdvance(res, j + 1, hi, Put(updated, res[j].repoKey, res[j].id), queue)

\* for (const result of results): every result advances the copy of the map,
\* the new ones are queued, in the order of the batch.
RECURSIVE Collect(_, _, _, _, _)
Collect(res, j, hi, updated, queue) ==
  IF j > hi THEN [updated |-> updated, queue |-> queue]
  ELSE IF res[j].tag # "result" THEN Collect(res, j + 1, hi, updated, queue)
  ELSE Collect(res, j + 1, hi, Put(updated, res[j].repoKey, res[j].id),
               IF res[j].isNew THEN Append(queue, res[j]) ELSE queue)

\* await Promise.all(...) resolves (or rejects, were a detector to throw), the
\* results are collected and, after the delay, the next batch starts.
BatchJoin(p) ==
  LET me == proc[p]
      hi == Min(me.i + batchSize, Len(me.repos))
      got == Collect(me.res, me.i + 1, hi, me.updated, me.queue)
      after == [me EXCEPT !.updated = got.updated, !.queue = got.queue]
  IN /\ me.pc = "batch" /\ me.pend = {}
     /\ proc' = [proc EXCEPT ![p] =
          IF \E j \in DOMAIN me.res : me.res[j].tag = "throw"
            THEN [me EXCEPT !.pc = "catch", !.err = "detector"]
            ELSE StartBatch(after, me.i + batchSize)]
     /\ UNCHANGED << storage, rate, remote, now, alarm, sink, budget, seen, call >>

\* A sweep that ends once its queue is dispatched, the time of the check never
\* written.
AfterDispatchNoTime(me) == IF Len(me.queue) > 0 THEN "badge" ELSE "return"

\* Where a sweep goes once its queue is dispatched: incrementUnreadCount when
\* something was queued, then (commit sweep) the time of the check.
AfterDispatch(me) ==
  IF Len(me.queue) > 0 THEN "badge"
  ELSE IF me.kind = "commits" THEN "time" ELSE "return"

\* await setStorage({ lastCommits: updatedLastCommits }): the whole map in one
\* write.  A rejected write is a failure outside the per-repository handling.
SweepStore(p) ==
  LET me == proc[p]
      done == [me EXCEPT !.ev = Append(@, "store"), !.wrote = @ \cup {MapKey(me.kind)},
                         !.n = 1]
  IN /\ me.pc = "store"
     /\ \/ /\ storage' = [storage EXCEPT ![MapKey(me.kind)] = me.updated]
           /\ budget' = budget
           /\ proc' = [proc EXCEPT ![p] =
                [done EXCEPT !.pc = IF Len(me.queue) > 0 THEN "notify" ELSE AfterDispatch(me)]]
        \/ /\ budget.faults > 0
           /\ budget' = [budget EXCEPT !.faults = @ - 1]
           /\ storage' = storage
           /\ proc' = [proc EXCEPT ![p] = [me EXCEPT !.pc = "catch", !.err = "storage write"]]
     /\ UNCHANGED << rate, remote, now, alarm, sink, seen, call >>

\* sendCommitNotification / sendReleaseNotification for queue entry n, up to
\* the read in storeNotificationHistory: settings are read again and a
\* switched-off notification returns at once; else the sink gets the id.
NotifySend(p) ==
  LET me == proc[p]
      s == storage.settings
      off == ~s.notificationsEnabled
             \/ (me.kind = "releases" /\ ~s.releaseNotificationsEnabled)
      next == IF me.n < Len(me.queue) THEN "notify" ELSE AfterDispatch(me)
  IN /\ me.pc = "notify"
     /\ IF off
          THEN /\ sink' = sink
               /\ proc' = [proc EXCEPT ![p] =
                    [me EXCEPT !.ev = Append(@, "dispatch"), !.n = @ + 1, !.pc = next]]
          ELSE /\ sink' = sink \cup {NotificationId(me.kind, me.queue[me.n])}
               /\ proc' = [proc EXCEPT ![p] =
                    [me EXCEPT !.ev = Append(@, "dispatch"), !.pc = "history",
                               !.hist = storage.notificationHistory]]
     /\ UNCHANGED << storage, rate, remote, now, alarm, budget, seen, call >>

\* The write of storeNotificationHistory, which ends the notification.
HistoryWrite(p) ==
  LET me == proc[p]
      note == [id |-> NotificationId(me.kind, me.queue[me.n]), type |-> me.kind]
  IN /\ me.pc = "history"
     /\ storage' = [storage EXCEPT !.notificationHistory =
                      StoreNotificationHistory(me.hist, note, now)]
     /\ proc' = [proc EXCEPT ![p] =
          [me EXCEPT !.n = @ + 1, !.wrote = @ \cup {"notificationHistory"},
                     !.pc = IF me.n < Len(me.queue) THEN "notify" ELSE AfterDispatch(me)]]
     /\ UNCHANGED << rate, remote, now, alarm, sink, budget, seen, call >>

\* incrementUnreadCount(newCommits.length): the read ...
BadgeRead(p) ==
  LET me == proc[p]
  IN /\ me.pc = "badge"
     /\ proc' = [proc EXCEPT ![p] = [me EXCEPT !.unread = storage.unreadCount, !.pc = "badgeWrite"]]
     /\ UNCHANGED << storage, rate, remote, now, alarm, sink, budget, seen, call >>

\* ... and the write.
BadgeWrite(p) ==
  LET me == proc[p]
  IN /\ me.pc = "badgeWrite"
     /\ storage' = [storage EXCEPT !.unreadCount = me.unread + Len(me.queue)]
     /\ proc' = [proc EXCEPT ![p] =
          [me EXCEPT !.wrote = @ \cup {"unreadCount"},
                     !.pc = IF me.kind = "commits" THEN "time" ELSE "return"]]
     /\ UNCHANGED << rate, remote, now, alarm, sink, budget, seen, call >>

\* Commit sweep only: await setStorage({ lastCheckTime: Date.now() }).
SweepTime(p) ==
  LET me == proc[p]
  IN /\ me.pc = "time"
     /\ storage' = [storage EXCEPT !.lastCheckTime = now]
     /\ proc' = [proc EXCEPT ![p] =
          [me EXCEPT !.ev = Append(@, "time"), !.wrote = @ \cup {"lastCheckTime"},
                     !.pc = "return"]]
     /\ UNCHANGED << rate, remote, now, alarm, sink, budget, seen, call >>

\* A catch that keeps what the sweep had collected: it writes the sweep's copy
\* of the map.
SweepCatchKeepsProgress(p) ==
  LET me == proc[p]
  IN /\ me.pc = "catch"
     /\ storage' = [storage EXCEPT ![MapKey(me.kind)] = me.updated]
     /\ proc' = [proc EXCEPT ![p] =
          [me EXCEPT !.pc = "return", !.abort = "failed",
                     !.wrote = IF me.kind = "commits" THEN @ \cup {"lastError"} ELSE @]]
     /\ UNCHANGED << rate, remote, now, alarm, sink, budget, seen, call >>

\* The catch of the sweep: the commit sweep stores the message under
\* lastError, the release sweep only logs it.
SweepCatch(p) ==
  LET me == proc[p]
  IN /\ me.pc = "catch"
     /\ storage' = IF me.kind = "commits"
                     THEN [storage EXCEPT !.lastError = me.err] ELSE storage
     /\ proc' = [proc EXCEPT ![p] =
          [me EXCEPT !.pc = "return", !.abort = "failed",
                     !.wrote = IF me.kind = "commits" THEN @ \cup {"lastError"} ELSE @]]
     /\ UNCHANGED << rate, remote, now, alarm, sink, budget, seen, call >>

\* The sweep function returns to its caller: after the commit sweep the
\* release sweep, after the release sweep the check of the platform's
\* notification feed.
SweepReturn(p) ==
  LET me == proc[p]
  IN /\ me.pc = "return"
     /\ proc' = [proc EXCEPT ![p] =
          IF me.kind = "commits" THEN [IdleProc EXCEPT !.pc = "begin", !.kind = "releases"]
          ELSE [IdleProc EXCEPT !.pc = "feed", !.kind = "notifications"]]
     /\ UNCHANGED << storage, rate, remote, now, alarm, sink, budget, seen, call >>

\* ------------------------------------------------- platform notifications
\* A thread of GitHub's notification feed: n.id, n.subject.type, n.reason.
Thread(id, type, reason) == [id |-> id, type |-> type, reason |-> reason]
importantTypes == {"PullRequest", "Issue", "CheckSuite"}
importantReasons == {"review_requested", "mention", "ci_activity", "security_alert"}
Important(n) == n.type \in importantTypes \/ n.reason \in importantReasons

\* The filter without the test of the seen set.
NewNotificationsIgnoringSeen(notifications, seenNotifications) ==
  SelectSeq(notifications, LAMBDA n : Important(n))

\* notifications.filter(n => !seenSet.has(n.id) && (important type or reason))
NewNotifications(notifications, seenNotifications) ==
  SelectSeq(notifications, LAMBDA n : n.id \notin Range(seenNotifications) /\ Important(n))

\* [...seenSet].slice(-1000): a Set keeps insertion order, the stored ids
\* first and the ids added by the loop behind them.
UpdatedSeen(seenSet) == SubSeq(seenSet, Max(1, Len(seenSet) - SeenCap + 1), Len(seenSet))

\* `github-${notification.id}`
GitHubNotificationId(n) == << "github", n.id >>

\* The threads the platform has: numbers 1..MaxNotes in the order they arrive,
\* every third one of a type and reason that are not important, and one old
\* thread that gets new activity once.
OldThread == 101
ThreadOf(id) ==
  IF id = OldThread THEN Thread(id, "PullRequest", "mention")
  ELSE IF id % 3 = 1 THEN Thread(id, "PullRequest", "subscribed")
  ELSE IF id % 3 = 2 THEN Thread(id, "Release", "mention")
  ELSE Thread(id, "Release", "subscribed")

\* The seen list of an installation that has notified a thousand threads, the
\* old thread first of them.
OldSeen == [i \in 1..SeenCap |-> OldThread + i - 1]

\* A thread gets activity: the platform lists it first among the unread ones.
Arrives(id) ==
  LET feed == remote.notifications
      arrived == Cardinality({ k \in 1..Len(feed) : feed[k].id # OldThread })
  IN /\ budget.events > 0
     /\ IF id = OldThread THEN arrived = Len(feed) ELSE id = arrived + 1
     /\ remote' = [remote EXCEPT !.notifications =
                     << ThreadOf(id) >> \o SelectSeq(feed, LAMBDA n : n.id # id)]
     /\ budget' = [budget EXCEPT !.events = @ - 1]
     /\ UNCHANGED << storage, rate, now, alarm, proc, sink, seen, call >>

\* checkGitHubNotifications(), one step per call: the request of the feed with
\* the read of seenNotifications behind it, sendGitHubNotification for each of
\* the first five new threads (the notification, then its history record),
\* and the write of the seen list.  A request that throws or is refused ends
\* the check in its catch; with no GitHub token the request throws before it
\* is sent (the alarm listener) or the check is not called (checkNow).
CheckGitHubNotifications(p) ==
  LET me == proc[p]
  IN /\ me.kind = "notifications"
     /\ IF me.pc = "feed"
          THEN \E ans \in Answers(budget, now) :
                 LET c == Fetch("github", storage.githubToken, rate.github, now, ans)
                     notifications == Take(remote.notifications, FeedPage)
                     queue == Take(NewNotifications(notifications, storage.seenNotifications),
                                   FeedCap)
                 IN /\ (~c.sent => ans = OkAnswer)
                    /\ Cost(ans) <= budget.faults
                    /\ budget' = [budget EXCEPT !.faults = @ - Cost(ans)]
                    /\ rate' = [rate EXCEPT !.github = c.rate]
                    /\ storage' = IF c.persist
                                    THEN [storage EXCEPT !.rateLimit = RateRecord(c)]
                                    ELSE storage
                    /\ sink' = sink
                    /\ proc' = [proc EXCEPT ![p] =
                         IF Ok(c)
                           THEN [me EXCEPT !.pc = IF queue = << >> THEN "feedStore" ELSE "feedSend",
                                           !.last = storage.seenNotifications,
                                           !.queue = queue, !.n = 1]
                           ELSE IdleProc]
        ELSE IF me.pc = "feedSend"
          THEN LET n == me.queue[me.n]
                   note == [id |-> GitHubNotificationId(n), type |-> "github"]
               IN /\ sink' = sink \cup {GitHubNotificationId(n)}
                  /\ storage' = [storage EXCEPT !.notificationHistory =
                                   StoreNotificationHistory(@, note, now)]
                  /\ proc' = [proc EXCEPT ![p] =
                       [me EXCEPT !.last = Append(@, n.id), !.n = @ + 1,
                                  !.pc = IF me.n < Len(me.queue) THEN "feedSend" ELSE "feedStore"]]
                  /\ UNCHANGED << rate, budget >>
        ELSE /\ me.pc = "feedStore"
             /\ storage' = [storage EXCEPT !.seenNotifications = UpdatedSeen(me.last)]
             /\ proc' = [proc EXCEPT ![p] = IdleProc]
             /\ UNCHANGED << rate, sink, budget >>
     /\ UNCHANGED << remote, now, alarm, seen, call >>

\* The steps of a handler, its two sweeps and the notification check, in
\* which nothing outside the requests fails.
Steps(p) ==
  \/ SweepBegin(p) \/ SweepUser(p) \/ SweepRepos(p) \/ SweepLoad(p)
  \/ (\E j \in 1..(Len(Served("github")) + Len(Served("gitlab"))) : DetectorSettle(p, j))
  \/ BatchJoin(p) \/ SweepStore(p) \/ NotifySend(p) \/ HistoryWrite(p)
  \/ BadgeRead(p) \/ BadgeWrite(p) \/ SweepTime(p) \/ SweepReturn(p)
  \/ CheckGitHubNotifications(p)

Sweep(p) == Steps(p) \/ SweepCatch(p)

Environment ==
  \/ (\E r \in Active, a \in Authors : Push(r, a))
  \/ (\E r \in Active, what \in {"release", "tag"} : Publish(r, what))
  \/ (\E pf \in Platforms : Authenticate(pf, OkAnswer))
  \/ (\E f \in Flags : UpdateSettings(f))

AllIdle == \A q \in Procs : ~Busy(q)

\* The runs in which handlers do not overlap (the alarm fires and checkNow
\* arrives while nothing else is running) and every request and every storage
\* call succeeds.
Next ==
  \/ (AllIdle /\ Environment)
  \/ (\E p \in Procs : AllIdle /\ AlarmFires(p))
  \/ (\E p \in Procs : AllIdle /\ CheckNow(p))
  \/ (\E p \in Procs : Steps(p))

Spec == Init /\ [][Next]_vars

\* Handlers that do not overlap, with requests and storage calls that fail.
NextFault ==
  \/ (\E pf \in Platforms, ans \in Answers(budget, now) : AllIdle /\ Authenticate(pf, ans))
  \/ (\E r \in Active, a \in Authors : AllIdle /\ Push(r, a))
  \/ (\E p \in Procs : AllIdle /\ AlarmFires(p))
  \/ (\E p \in Procs : AllIdle /\ CheckNow(p))
  \/ (\E p \in Procs : Sweep(p))

SpecFault == InitFault /\ [][NextFault]_vars

\* The same runs, every request and every storage call of a running sweep
\* settling in the end: no handler waits forever for its next step.
SpecSettle ==
  InitFault /\ [][NextFault]_vars /\ \A p \in Procs : WF_vars(Sweep(p))

\* The alarm's handler and checkNow's running at the same time on GitHub
\* repositories, commits being pushed meanwhile.
NextRace ==
  \/ (AllIdle /\ Authenticate("github", OkAnswer))
  \/ (\E a \in Authors : Push(Repo("github", "a/x"), a))
  \/ (\E p \in Procs : AlarmFires(p))
  \/ (\E p \in Procs : CheckNow(p))
  \/ (\E p \in Procs : Steps(p))

SpecRace == InitRace /\ [][NextRace]_vars

\* The clients called on their own, between logins and logouts, the clock
\* advancing.
NextRate ==
  \/ (\E pf \in Platforms : Authenticate(pf, OkAnswer))
  \/ Logout
  \/ (\E pf \in Platforms, ans \in {OkAnswer, Refusal(now)} \cup Faulty(now) :
        ClientCall(pf, ans))
  \/ (\E d \in TickSteps : Tick(d))

SpecRate == InitRate /\ [][NextRate]_vars

\* Notifications stored one after the other, minutes passing in between.
NextHistory ==
  \/ AppendRecord
  \/ Tick(Minute)

SpecHistory == InitHistory /\ [][NextHistory]_vars

\* Handlers that do not overlap, sweeping a listing of eleven enabled
\* repositories: ten of GitHub, one of GitLab.
NextBatch ==
  \/ (\E pf \in Platforms : AllIdle /\ Authenticate(pf, OkAnswer))
  \/ (AllIdle /\ Push(Repo("github", "a/x"), "dev"))
  \/ (\E p \in Procs : AllIdle /\ AlarmFires(p))
  \/ (\E p \in Procs : AllIdle /\ CheckNow(p))
  \/ (\E p \in Procs : Steps(p))

SpecBatch == InitBatch /\ [][NextBatch]_vars

\* The alarm alone: it fires every period whether or not the listener started
\* by an earlier firing has returned; nobody sends checkNow.
NextAlarm ==
  \/ (AllIdle /\ Authenticate("github", OkAnswer))
  \/ (\E a \in Authors : Push(Repo("github", "a/x"), a))
  \/ (\E p \in Procs : AlarmFires(p))
  \/ (\E p \in Procs : Steps(p))

SpecAlarm == InitRace /\ [][NextAlarm]_vars

\* Calls of the classifier on a commit record, the record being any of
\* CommitRecords.
InitClassify ==
  /\ storage = InitialStorage
  /\ rate = InitialRate
  /\ remote = InitialRemote
  /\ now = StartTime
  /\ alarm = FALSE
  /\ proc = [p \in Procs |-> IdleProc]
  /\ sink = {}
  /\ seen = NoSeen
  /\ budget = NoBudget
  /\ \E c \in CommitRecords :
       call = [made |-> None, commit |-> c, analysis |-> NoAnalysis, priority |-> None]

NextClassify ==
  \/ Analyze
  \/ Classify

SpecClassify == InitClassify /\ [][NextClassify]_vars

\* Runs of the message getRepositories between logins and clock advances of a
\* minute, of the hour a cached listing lasts and of a millisecond more.
InitDirectory ==
  /\ InitCommon
  /\ budget = [NoBudget EXCEPT !.calls = MaxReads, !.faults = MaxFaults, !.ticks = MaxTicks]

NextDirectory ==
  \/ (\E pf \in Platforms : Authenticate(pf, OkAnswer))
  \/ (\E d \in {Minute, CacheTtlMs, CacheTtlMs + 1} : Tick(d))
  \/ GetRepositories

SpecDirectory == InitDirectory /\ [][NextDirectory]_vars

\* Handlers that do not overlap, repositories being switched off and on
\* between the sweeps while commits and releases arrive.
InitEnable ==
  /\ InitCommon
  /\ budget = [NoBudget EXCEPT !.runs = MaxRuns, !.edits = MaxEdits, !.events = MaxEvents]

NextEnable ==
  \/ (\E pf \in Platforms : AllIdle /\ Authenticate(pf, OkAnswer))
  \/ (\E r \in Active : AllIdle /\ Push(r, "dev"))
  \/ (AllIdle /\ Publish(Repo("github", "a/x"), "release"))
  \/ (\E r \in Active, isEnabled \in BOOLEAN :
        AllIdle /\ ToggleRepo(CompositeKey(r), isEnabled))
  \/ (\E isEnabled \in BOOLEAN :
        AllIdle /\ ToggleRepo(PlainKey(Repo("github", "a/x")), isEnabled))
  \/ (\E p \in Procs : AllIdle /\ CheckNow(p))
  \/ (\E p \in Procs : Steps(p))

SpecEnable == InitEnable /\ [][NextEnable]_vars

\* Handlers that do not overlap, releases and tags being published between
\* the sweeps, with requests and storage calls that fail.
InitRelease ==
  /\ InitCommon
  /\ budget = [NoBudget EXCEPT !.runs = MaxRuns, !.faults = MaxFaults, !.events = MaxEvents]

NextRelease ==
  \/ (\E pf \in Platforms : AllIdle /\ Authenticate(pf, OkAnswer))
  \/ (\E r \in Active, what \in {"release", "tag"} : AllIdle /\ Publish(r, what))
  \/ (\E p \in Procs : AllIdle /\ CheckNow(p))
  \/ (\E p \in Procs : Sweep(p))

SpecRelease == InitRelease /\ [][NextRelease]_vars

\* Logins at any moment, answered or refused, between logouts and sweeps that
\* do not overlap.
InitAuth ==
  /\ InitCommon
  /\ budget = [NoBudget EXCEPT !.calls = MaxCalls, !.runs = MaxRuns, !.events = MaxRaceEvents]

NextAuth ==
  \/ (\E pf \in Platforms, ans \in {OkAnswer, Refusal(now)} \cup Faulty(now) :
        AllIdle /\ AuthenticateMessage(pf, ans))
  \/ (AllIdle /\ Logout)
  \/ (AllIdle /\ Push(Repo("github", "a/x"), "dev"))
  \/ (\E p \in Procs : AllIdle /\ CheckNow(p))
  \/ (\E p \in Procs : Steps(p))

SpecAuth == InitAuth /\ [][NextAuth]_vars

\* Two change events, any of ChangeEvents, handed to the dispatcher.
InitNotify ==
  /\ storage = InitialStorage
  /\ rate = InitialRate
  /\ remote = InitialRemote
  /\ now = StartTime
  /\ alarm = FALSE
  /\ proc = [p \in Procs |-> IdleProc]
  /\ sink = {}
  /\ seen = NoSeen
  /\ budget = NoBudget
  /\ \E e1, e2 \in ChangeEvents :
       call = [events |-> << e1, e2 >>, ids |-> << << >>, << >> >>]

NextNotify == \E k \in {1, 2} : SendNotification(k)

SpecNotify == InitNotify /\ [][NextNotify]_vars

\* The polling interval changed at any moment, also while a sweep is in
\* flight; handlers do not overlap, and every step of a running handler is
\* eventually taken (requests and storage calls settle).
InitInterval ==
  /\ InitCommon
  /\ budget = [NoBudget EXCEPT !.runs = MaxRuns, !.edits = MaxEdits, !.events = MaxRaceEvents]

NextInterval ==
  \/ (AllIdle /\ Authenticate("github", OkAnswer))
  \/ (AllIdle /\ Push(Repo("github", "a/x"), "dev"))
  \/ (\E minutes \in {1, 5, 15} : UpdateCheckInterval(minutes))
  \/ (\E p \in Procs : AllIdle /\ AlarmFires(p))
  \/ (\E p \in Procs : AllIdle /\ CheckNow(p))
  \/ (\E p \in Procs : Steps(p))

SpecInterval ==
  InitInterval /\ [][NextInterval]_vars /\ \A p \in Procs : WF_vars(Steps(p))

\* The fork switch of the options page flipped at any moment, logins before
\* and after it, sweeps on cached listings and on listings fetched again after
\* the hour a cached listing lasts, a commit pushed to GitHub's fork.
InitForks ==
  /\ InitCommon
  /\ budget = [NoBudget EXCEPT !.runs = MaxRuns, !.edits = MaxFlips, !.ticks = MaxTicks,
                               !.events = MaxRaceEvents]

NextForks ==
  \/ (\E pf \in Platforms : AllIdle /\ Authenticate(pf, OkAnswer))
  \/ UpdateSettings("ignoreForks")
  \/ (AllIdle /\ Push(Fork("github"), "dev"))
  \/ (AllIdle /\ Tick(CacheTtlMs + 1))
  \/ (AllIdle /\ CheckNow("h1"))
  \/ Steps("h1")

SpecForks == InitForks /\ [][NextForks]_vars

\* The messages of the popup and the options page arriving between sweeps:
\* logins, the three logouts, resetReleaseCache, a settings flag flipped, while
\* a commit is pushed and a release published.
InitMessages ==
  /\ InitCommon
  /\ budget = [NoBudget EXCEPT !.runs = MaxRuns, !.edits = MaxEdits, !.events = MaxEvents]

NextMessages ==
  \/ (\E pf \in Platforms : AllIdle /\ Authenticate(pf, OkAnswer))
  \/ (AllIdle /\ Push(Repo("gitlab", "a/x"), "dev"))
  \/ (AllIdle /\ Publish(Repo("github", "a/x"), "release"))
  \/ (AllIdle /\ Logout)
  \/ (AllIdle /\ LogoutGitHub)
  \/ (AllIdle /\ LogoutGitLab)
  \/ (AllIdle /\ ResetReleaseCache)
  \/ (\E f \in Flags : AllIdle /\ UpdateSettings(f))
  \/ (\E p \in Procs : AllIdle /\ CheckNow(p))
  \/ (\E p \in Procs : Steps(p))

SpecMessages == InitMessages /\ [][NextMessages]_vars

\* Three sweeps one after the other on GitHub: the first takes the baselines,
\* the later ones meet the commits pushed and the releases published between
\* them, or nothing new.
InitRepeat ==
  /\ InitCommon
  /\ budget = [NoBudget EXCEPT !.runs = MaxSweeps, !.edits = MaxEdits, !.events = MaxEvents]

NextRepeat ==
  \/ (AllIdle /\ Authenticate("github", OkAnswer))
  \/ (\E a \in Authors : AllIdle /\ Push(Repo("github", "a/x"), a))
  \/ (AllIdle /\ Publish(Repo("github", "a/x"), "release"))
  \/ (AllIdle /\ UpdateSettings("ignoreOwnCommits"))
  \/ (AllIdle /\ CheckNow("h1"))
  \/ Steps("h1")

SpecRepeat == InitRepeat /\ [][NextRepeat]_vars

\* The logout message arriving at any moment, also while a sweep is in flight
\* on GitHub, commits being pushed meanwhile.
InitLogout ==
  /\ InitCommon
  /\ budget = [NoBudget EXCEPT !.runs = MaxRuns, !.events = MaxRaceEvents]

NextLogout ==
  \/ (AllIdle /\ Authenticate("github", OkAnswer))
  \/ Push(Repo("github", "a/x"), "dev")
  \/ Logout
  \/ (AllIdle /\ CheckNow("h1"))
  \/ Steps("h1")

SpecLogout == InitLogout /\ [][NextLogout]_vars

\* A baseline sweep, then the alarm and a checkNow message with their handlers
\* in flight together on GitHub, a commit pushed and the clock advancing in
\* between.
InitDispatch ==
  /\ InitCommon
  /\ budget = [NoBudget EXCEPT !.runs = MaxSweeps, !.events = MaxRaceEvents,
                               !.ticks = MaxTicks]

NextDispatch ==
  \/ (AllIdle /\ Authenticate("github", OkAnswer))
  \/ Push(Repo("github", "a/x"), "dev")
  \/ Tick(Minute)
  \/ \E p \in Procs : AlarmFires(p)
  \/ \E p \in Procs : CheckNow(p)
  \/ \E p \in Procs : Steps(p)

SpecDispatch == InitDispatch /\ [][NextDispatch]_vars

\* A baseline sweep, then the alarm and checkNow messages with their handlers
\* in flight together on GitHub, a commit pushed in between and the badge
\* cleared at any moment.
InitUnread ==
  /\ InitCommon
  /\ budget = [NoBudget EXCEPT !.runs = MaxSweeps, !.events = MaxRaceEvents]

NextUnread ==
  \/ (AllIdle /\ Authenticate("github", OkAnswer))
  \/ Push(Repo("github", "a/x"), "dev")
  \/ ClearUnreadCount
  \/ \E p \in Procs : AlarmFires(p)
  \/ \E p \in Procs : CheckNow(p)
  \/ \E p \in Procs : Steps(p)

SpecUnread == InitUnread /\ [][NextUnread]_vars

\* The notification feed: threads arrive between the handlers' runs, whose
\* sweeps find a pushed commit or nothing, on an installation whose seen list
\* holds the old thread alone or a thousand threads.
InitFeed ==
  /\ \E seenNotifications \in { << OldThread >>, OldSeen } :
       storage = [InitialStorage EXCEPT !.seenNotifications = seenNotifications]
  /\ rate = InitialRate
  /\ remote = InitialRemote
  /\ now = StartTime
  /\ alarm = FALSE
  /\ proc = [p \in Procs |-> IdleProc]
  /\ sink = {}
  /\ seen = NoSeen
  /\ call = NoCall
  /\ budget = [NoBudget EXCEPT !.runs = MaxRuns, !.events = MaxNotes + 1]

NextFeed ==
  \/ (AllIdle /\ Authenticate("github", OkAnswer))
  \/ (AllIdle /\ remote.notifications = << >> /\ Push(Repo("github", "a/x"), "dev"))
  \/ (AllIdle /\ \E id \in 1..MaxNotes \cup {OldThread} : Arrives(id))
  \/ AlarmFires("h1")
  \/ Steps("h1")

SpecFeed == InitFeed /\ [][NextFeed]_vars

\* The alarm alone starting the handler, one firing at a time, on GitHub: the
\* alarm is armed by a login or by a change of the interval, which arms it
\* whether or not anybody is logged in, and disarmed by a logout.
InitScheduler ==
  /\ InitCommon
  /\ budget = [NoBudget EXCEPT !.runs = MaxRuns, !.edits = MaxEdits, !.events = MaxRaceEvents]

NextScheduler ==
  \/ (AllIdle /\ Authenticate("github", OkAnswer))
  \/ (AllIdle /\ Logout)
  \/ (AllIdle /\ Push(Repo("github", "a/x"), "dev"))
  \/ (\E minutes \in {1, 15} : UpdateCheckInterval(minutes))
  \/ (AllIdle /\ AlarmFires("h1"))
  \/ Steps("h1")

SpecScheduler == InitScheduler /\ [][NextScheduler]_vars /\ WF_vars(Steps("h1"))

\* ------------------------------------------------------------- properties
Stored(p) == "store" \in Range(proc[p].ev)
Results(p) == { j \in DOMAIN proc[p].res : proc[p].res[j].tag = "result" }
NoEntry(p, j) == CompositeKey(proc[p].repos[j]) \notin DOMAIN proc[p].last
CurrentUser(p, j) ==
  IF proc[p].repos[j].platform = "gitlab" THEN proc[p].gitlabUserData ELSE proc[p].userData

C2_StateFollowsLatestFetch ==
  AllIdle =>
    \A k \in Kinds : \A r \in Watched :
      seen[k][r] # NoId => Lookup(storage[MapKey(k)], r) = seen[k][r]

\* C3  Batch isolation: a failed fetch gives a null result and never an
\* exception out of the detector; the sweep reaches its catch only for a
\* storage failure; once the sweep has written the map, every repository of
\* the listing has been through its detector and every one whose fetch
\* succeeded has its fetched identifier stored.
C3_BatchIsolation ==
  \A p \in Procs :
    /\ \A j \in DOMAIN proc[p].res :
         /\ proc[p].res[j].tag # "throw"
         /\ (j \in DOMAIN proc[p].fetched /\ proc[p].fetched[j].tag = "null")
              => proc[p].res[j].tag = "null"
    /\ proc[p].pc = "catch" => proc[p].err \in {"storage read", "storage write"}
    /\ Stored(p) =>
         /\ DOMAIN proc[p].res = 1..Len(proc[p].repos)
         /\ \A j \in DOMAIN proc[p].fetched :
              proc[p].fetched[j].tag \notin {"null", "throw"}
                => Lookup(storage[MapKey(proc[p].kind)], proc[p].repos[j])
                     = proc[p].fetched[j].id

\* A commit sweep has written the map after the fetch of a repository of the
\* first batch failed (every repository has a commit, so a null fetch is a
\* failed one) while that of a repository of the second batch succeeded and
\* is stored.
C3_Witness ==
  \E p \in Procs : \E j, k \in DOMAIN proc[p].fetched :
    /\ proc[p].kind = "commits" /\ Stored(p)
    /\ j <= batchSize /\ k > batchSize
    /\ proc[p].fetched[j].tag = "null" /\ proc[p].res[j].tag = "null"
    /\ proc[p].fetched[k].tag = "commit"
    /\ NoEntry(p, k)
    /\ storage.lastCommits[CompositeKey(proc[p].repos[k])] = proc[p].fetched[k].id

\* The gate condition of the claim on what the call found: at most 10 requests
\* left and the clock before the reset time (epoch seconds against ms).
Gated == call.made /\ call.before.remaining <= 10
         /\ call.at < call.before.reset * MsPerSecond
FailedFast == ~call.sent /\ call.outcome = "ratelimited" /\ call.wait > 0

\* C4  Rate-limit fail-fast, as stated: whenever the tracked state of a platform
\* has remaining <= 10 and the time is before the reset, a call of that
\* platform's client sends no request and fails with a rate-limit error whose
\* delay in minutes is positive.
C4_FailFastAnyCall == Gated => FailedFast

\* C4  Rate-limit fail-fast, amended: the same for every call made while a token
\* is stored for the platform; without a token the call also sends nothing but
\* fails as not authenticated.
C4_FailFastWithToken ==
  /\ (Gated /\ call.token # None) => FailedFast
  /\ (Gated /\ call.token = None) => (~call.sent /\ call.outcome = "noauth")

\* A call made with a token stored found the budget at the floor before the
\* reset time and failed fast.
C4_Witness == Gated /\ call.token # None /\ FailedFast /\ call.before.remaining = 10

\* C5  Own-commit suppression: in a commit sweep run with ignoreOwnCommits set,
\* a fetched commit whose sha differs from the stored one and whose author is
\* the login of the identity of the repository's platform gives a result that
\* is not new, so it is not queued, and once the sweep has written the map the
\* repository's entry is the new sha.
C5_OwnCommitSuppressed ==
  \A p \in Procs : \A j \in DOMAIN proc[p].fetched :
    LET me == proc[p]
        known == Lookup(me.last, me.repos[j])
    IN (/\ me.kind = "commits" /\ me.settings.ignoreOwnCommits
        /\ me.fetched[j].tag = "commit"
        /\ known # NoId /\ me.fetched[j].id # known
        /\ CurrentUser(p, j) # None /\ me.fetched[j].author = CurrentUser(p, j))
       => /\ me.res[j].tag = "result" /\ ~me.res[j].isNew
          /\ \A n \in 1..Len(me.queue) : me.queue[n].repo # me.repos[j]
          /\ Stored(p) => Lookup(storage.lastCommits, me.repos[j]) = me.fetched[j].id

\* A commit sweep with ignoreOwnCommits set has fetched a new commit of the
\* logged-in user, has written the map with the new sha and has queued nothing
\* for it.
C5_Witness ==
  \E p \in Procs : \E j \in DOMAIN proc[p].fetched :
    LET me == proc[p]
        known == Lookup(me.last, me.repos[j])
    IN /\ me.kind = "commits" /\ me.settings.ignoreOwnCommits
       /\ me.fetched[j].tag = "commit" /\ known # NoId /\ me.fetched[j].id # known
       /\ me.fetched[j].author = CurrentUser(p, j)
       /\ Stored(p) /\ storage.lastCommits[CompositeKey(me.repos[j])] = me.fetched[j].id
       /\ ~me.res[j].isNew

\* C6  History bound: the stored history never has more than 100 entries; after
\* n records stored one after the other it has min(n, 100) entries, entry i
\* being the (n - i + 1)-th record stored, with timestamps that do not
\* increase from the front to the back.
C6_HistoryBound ==
  LET h == storage.notificationHistory
  IN /\ Len(h) <= 100
     /\ Len(h) = Min(Appended, 100)
     /\ \A i \in 1..Len(h) :
          /\ h[i].id = Note(Appended - i + 1).id
          /\ i < Len(h) => h[i].timestamp >= h[i + 1].timestamp

\* More than 100 records were stored, the clock having advanced in between:
\* the history has 100 entries and the first two stored are gone.
C6_Witness ==
  /\ Appended > 101 /\ Len(storage.notificationHistory) = 100
  /\ storage.notificationHistory[100].id = Note(Appended - 99).id
  /\ storage.notificationHistory[1].timestamp > storage.notificationHistory[100].timestamp

\* n times "dispatch"
Dispatches(n) == [ i \in 1..n |-> "dispatch" ]
IsPrefix(a, b) == Len(a) <= Len(b) /\ a = SubSeq(b, 1, Len(a))
Completed(p) == proc[p].pc = "return" /\ proc[p].abort = None

\* When the map is written every batch is over, and it is written once.
StoreAfterBatches(p) ==
  Stored(p) => /\ proc[p].pend = {} /\ proc[p].i >= Len(proc[p].repos)
               /\ Len(SelectSeq(proc[p].ev, LAMBDA e : e = "store")) = 1

\* C7  Sweep ordering, as stated: a completed sweep of either kind has written
\* the map once after all batches, then dispatched once per queued change,
\* then written the time of the check, in that order and nothing else.
C7_OrderWithTimestamp ==
  \A p \in Procs :
    /\ StoreAfterBatches(p)
    /\ Completed(p) =>
         proc[p].ev = << "store" >> \o Dispatches(Len(proc[p].queue)) \o << "time" >>

\* C7  Sweep ordering, amended: at every moment of a sweep of either kind the
\* writes and dispatches done so far are a prefix of: the map written once
\* after all batches, one dispatch per queued change, and, in a commit sweep
\* only, the time of the check; a completed sweep has done all of them, so a
\* release sweep ends after its last dispatch and writes no time.
C7_Order ==
  \A p \in Procs :
    LET all == << "store" >> \o Dispatches(Len(proc[p].queue))
                 \o (IF proc[p].kind = "commits" THEN << "time" >> ELSE << >>)
    IN /\ StoreAfterBatches(p)
       /\ Stored(p) => IsPrefix(proc[p].ev, all)
       /\ Completed(p) => proc[p].ev = all
       /\ ("lastCheckTime" \in proc[p].wrote) = ("time" \in Range(proc[p].ev))

\* A commit sweep has completed with two changes queued: map, two dispatches,
\* time.
C7_Witness ==
  \E p \in Procs :
    /\ Completed(p) /\ proc[p].kind = "commits" /\ Len(proc[p].queue) = 2
    /\ proc[p].ev = << "store", "dispatch", "dispatch", "time" >>

\* The condition under which a sweep is to do nothing: the settings it read
\* switch its notifications off, or no identity is stored for any platform.
MustSkip(p) ==
  \/ ~proc[p].settings.notificationsEnabled
  \/ (proc[p].kind = "releases" /\ ~proc[p].settings.releaseNotificationsEnabled)
  \/ (storage.userData = None /\ storage.gitlabUserData = None)
Guarded == {"lastCommits", "lastReleases", "notificationHistory", "unreadCount",
            "lastCheckTime"}

\* C8  Early abort is a no-op: a sweep of either kind that started with
\* notifications switched off for it, or with no identity stored for any
\* platform, sends no request, emits no notification and writes none of the
\* last-seen maps, the history, the unread counter and the time of the check.
C8_EarlyAbortNoOp ==
  \A p \in Procs :
    (proc[p].pc \notin {"idle", "begin"} /\ MustSkip(p))
      => /\ proc[p].reqs = 0
         /\ proc[p].queue = << >>
         /\ proc[p].wrote \cap Guarded = {}

\* C9  Sweep failure is contained and recorded: when a sweep of either kind has
\* been aborted by a failure outside the detectors and has returned, the
\* failure is stored under lastError, and the alarm is as armed as it was.
C9_FailureRecorded ==
  \A p \in Procs :
    (proc[p].pc = "return" /\ proc[p].abort = "failed")
      => (storage.lastError = proc[p].err /\ proc[p].err # None)

\* C10  lastError reflects the latest sweep attempt only: when a commit sweep
\* has completed without a failure outside the detectors, lastError holds no
\* error of an earlier sweep.
C10_LastErrorCleared ==
  \A p \in Procs :
    (Completed(p) /\ proc[p].kind = "commits") => storage.lastError = None

\* The detectors of handler p that have been called: in flight or settled.
Started(p) == proc[p].pend \cup DOMAIN proc[p].res

\* C11  Bounded concurrency within a sweep: at every moment of a sweep the
\* repositories with a detector request in flight are at most 10 and all lie
\* in the batch the loop is at (positions i+1 .. i+10 of the listing); every
\* detector of the earlier batches has settled and none of a later batch has
\* been called.
C11_OneBatchInFlight ==
  \A p \in Procs :
    /\ Cardinality(proc[p].pend) <= 10
    /\ proc[p].pend \subseteq (proc[p].i + 1)..(proc[p].i + 10)
    /\ Started(p) \subseteq 1..(proc[p].i + 10)
    /\ proc[p].pend # {} => 1..proc[p].i \subseteq (DOMAIN proc[p].res \ proc[p].pend)

\* A sweep is in its second batch, a request in flight, after each of the ten
\* repositories of the first batch had its detector settle with a result.
C11_Witness ==
  \E p \in Procs :
    /\ proc[p].i = 10 /\ proc[p].pend = {11}
    /\ \A j \in 1..10 : proc[p].res[j].tag = "result"

\* C12  Single-flight scheduling: at no moment are two handlers started by the
\* alarm running their sweeps; a firing of the alarm starts no sweep while the
\* sweeps started by an earlier firing have not settled.
C12_SingleFlight == Cardinality({ p \in Procs : Busy(p) }) <= 1

\* ---------------------------------------------------- classifier properties
\* The decision list in the words of the specification.  A changed file is a
\* critical-pattern file when some entry of the table matches its name, and it
\* weighs what the first such entry weighs.
CriticalPatternFiles(commit) == { f \in commit.files : Len(CriticalHits(f.filename)) > 0 }
WeightOfFile(f) == CriticalHits(f.filename)[1]
Contains(commit, words) ==
  \E w \in words : Includes(ToLowerCase(commit.message), w)

Rule(k, commit) ==
  LET type == AnalyzeCommitType(commit).type
      critical == CriticalPatternFiles(commit)
  IN CASE k = 1 -> type \in {"merge", "docs", "config", "ci", "localization"}
       [] k = 2 -> type = "tests"
       [] k = 3 -> \/ \E f \in critical : WeightOfFile(f) >= 3
                   \/ Cardinality(critical) >= 3
       [] k = 4 -> \E f \in commit.files :
                     f.deletions > 100 /\ 10 * f.additions < 3 * f.deletions
       [] k = 5 -> Cardinality(critical) >= 2
       [] k = 6 -> Contains(commit, Range(HIGH_PRIORITY_KEYWORDS))
       [] k = 7 -> critical # {}
       [] k = 8 -> commit.stats.additions + commit.stats.deletions > 500
       [] k = 9 -> Contains(commit, Range(lowKeywords) \ {lowKeywords[2]})
       [] k = 10 -> TRUE

Outcome == << "low", "medium", "high", "high", "high", "high", "medium", "medium", "low",
              "medium" >>

FirstMatch(commit) ==
  CHOOSE k \in 1..10 : Rule(k, commit) /\ \A j \in 1..(k - 1) : ~Rule(j, commit)

DecisionList(commit) == Outcome[FirstMatch(commit)]

Classified == call.made = "classifyCommitPriority"
Analyzed == call.made \in {"analyzeCommitType", "classifyCommitPriority"}

C14_MergeIsLow ==
  (Analyzed /\ call.commit.parents >= 2) =>
    /\ call.analysis.type = "merge"
    /\ Classified => call.priority = "low"

\* C14: a merge commit that changes a weight-3 security file and a file with a
\* large deletion under an urgent message has been classified low.
C14_Witness ==
  /\ Classified
  /\ call.commit.parents >= 2
  /\ \E f \in CriticalPatternFiles(call.commit) : WeightOfFile(f) = 3
  /\ Rule(4, call.commit)
  /\ Rule(6, call.commit)
  /\ call.analysis.type = "merge"
  /\ call.priority = "low"

NonCode == Range(FamilyOrder)

\* C15: for a commit that is no merge, every changed file is counted in
\* exactly one of the six categories; the type is a non-code family exactly
\* when there are files and all of them are assigned to that family, and code
\* otherwise; without files the type is code and the details are empty.
C15_StructuralType ==
  (Analyzed /\ call.commit.parents < 2) =>
    LET files == call.commit.files
        type == call.analysis.type
        details == call.analysis.details
    IN /\ type \in NonCode \cup {"code"}
       /\ \A family \in NonCode :
            type = family <=>
              (files # {} /\ \A f \in files : Categorize(f.filename) = family)
       /\ (type = "code" /\ files # {}) =>
            /\ \A c \in Categories :
                 details.categories[c] =
                   Cardinality({ f \in files : Categorize(f.filename) = c })
            /\ \A f \in files :
                 Cardinality({ c \in Categories : Categorize(f.filename) = c }) = 1
       /\ files = {} => (type = "code" /\ DOMAIN details = {})

\* C15: a commit of a configuration file and of a file matching both the
\* documentation and the configuration patterns has been typed code.
C15_Witness ==
  /\ call.made = "analyzeCommitType"
  /\ call.commit.parents < 2
  /\ { f.filename : f \in call.commit.files } = {"requirements.txt", "package.json"}
  /\ call.analysis.type = "code"
  /\ call.analysis.details.categories["docs"] = 1
  /\ call.analysis.details.categories["config"] = 1

\* Rules 1 to 5 of the decision list: the type rules, the critical-file
\* weighting, the large-deletion rule and the rule of two critical files.
Structural(commit) == \E k \in 1..5 : Rule(k, commit)

\* C16: when a structural rule matches a classified commit, the commit with
\* any other message in place of its own receives the same priority.
C16_StructureOverMessage ==
  (Classified /\ Structural(call.commit)) =>
    \A m \in Messages :
      ClassifyCommitPriority([call.commit EXCEPT !.message = m]) = call.priority

\* C16: a commit of test files only, one of them a weight-3 security file, has
\* been classified medium under an urgent message.
C16_Witness ==
  /\ Classified
  /\ call.analysis.type = "tests"
  /\ Rule(6, call.commit)
  /\ call.priority = "medium"
  /\ ClassifyCommitPriority([call.commit EXCEPT
       !.message = << "a", "d", "d", " ", "v", "i", "e", "w" >>]) = "medium"

\* A classified commit typed code whose message holds a low-urgency word and
\* no high-urgency word, none of whose files is a large deletion.
QuietCode ==
  /\ Classified /\ call.analysis.type = "code"
  /\ Rule(9, call.commit) /\ ~Rule(6, call.commit) /\ ~Rule(4, call.commit)

Listed == call.made
Connected == { pf \in Platforms : call.token[pf] # None }
Fresh(pf) == call.cache[pf].has /\ call.at - call.cache[pf].updated <= CacheTtlMs

\* C17: a read of a platform's list made within one hour of the cached
\* timestamp returns the cached list, sends no request and leaves the cache as
\* it was; a read made without a cache or later than that goes to the
\* platform, and when it returns, the cache holds the list it returns and the
\* time of the read.
C17_DirectoryCache ==
  Listed =>
    \A pf \in Connected :
      /\ Fresh(pf) =>
           /\ call.read[pf] = "cache"
           /\ call.part[pf] = call.cache[pf].list
           /\ call.asked[pf] = << >>
           /\ storage[CacheKey(pf)] = call.cache[pf]
      /\ ~Fresh(pf) =>
           /\ call.read[pf] = "fetch"
           /\ call.ok[pf] =>
                /\ call.asked[pf] # << >>
                /\ storage[CacheKey(pf)] =
                     [has |-> TRUE, list |-> call.part[pf], updated |-> call.at]

\* C17: a read made more than an hour after the listing was cached has
\* replaced the cached list by a longer one.
C17_Witness ==
  /\ Listed
  /\ \E pf \in Connected :
       /\ call.cache[pf].has
       /\ call.at - call.cache[pf].updated > CacheTtlMs
       /\ call.ok[pf]
       /\ Len(call.part[pf]) > Len(call.cache[pf].list)
       /\ storage[CacheKey(pf)].list = call.part[pf]
       /\ storage[CacheKey(pf)].updated = call.at

\* C18: one listing requests the pages 1, 2, 3, ... in this order, requests
\* nothing after the first empty page, and requests at most 50 pages.
C18_PaginationBounded ==
  Listed =>
    \A pf \in Platforms :
      LET asked == call.asked[pf]
      IN /\ Len(asked) <= PageCap
         /\ \A i \in 1..Len(asked) : asked[i] = i
         /\ Len(asked) <= call.paging[pf].pages + 1
         /\ (call.read[pf] = "fetch" /\ call.ok[pf]) =>
              Len(asked) = Min(call.paging[pf].pages + 1, PageCap)

\* C18: a listing of a platform with more than 50 pages of repositories has
\* ended after its request for page 50.
C18_Witness ==
  /\ Listed
  /\ \E pf \in Platforms :
       /\ call.paging[pf].pages > PageCap
       /\ call.ok[pf]
       /\ Len(call.asked[pf]) = PageCap
       /\ call.asked[pf][PageCap] = PageCap

\* C19: getRepositories does not fail; a platform without a stored token
\* contributes no entry and causes no request, and the result is the list of
\* the first platform followed by the list of the second, each platform with
\* a token contributing its cached or its fetched list.
C19_PlatformsIndependent ==
  Listed =>
    /\ call.success
    /\ call.repos = call.part["github"] \o call.part["gitlab"]
    /\ \A pf \in Platforms \ Connected :
         call.part[pf] = << >> /\ call.asked[pf] = << >>
    /\ \A pf \in Connected :
         /\ call.read[pf] = "cache" => call.part[pf] = call.cache[pf].list
         /\ (call.read[pf] = "fetch" /\ call.ok[pf]) =>
              call.part[pf] = storage[CacheKey(pf)].list

\* C19: with a token of GitHub only, getRepositories has returned the whole
\* listing of GitHub and has sent nothing to GitLab.
C19_Witness ==
  /\ Listed
  /\ Connected = {"github"}
  /\ call.success
  /\ call.repos = Listing("github")
  /\ call.asked["gitlab"] = << >>

\* ---------------------------------------------------- enablement properties
Entry(map, repo) ==
  [composite |-> IF CompositeKey(repo) \in DOMAIN map THEN map[CompositeKey(repo)] ELSE NoId,
   plain |-> IF PlainKey(repo) \in DOMAIN map THEN map[PlainKey(repo)] ELSE NoId]
NoSetting(repo) ==
  /\ CompositeKey(repo) \notin DOMAIN storage.settings.enabledRepos
  /\ PlainKey(repo) \notin DOMAIN storage.settings.enabledRepos
SwitchedOff(repo) ==
  LET e == storage.settings.enabledRepos
  IN \E key \in {CompositeKey(repo), PlainKey(repo)} : key \in DOMAIN e /\ e[key] = FALSE
Called(p) == proc[p].pend \cup DOMAIN proc[p].fetched
Positions(p) == 1..Len(proc[p].repos)

\* C20: in a sweep of either kind, the detector of a listed repository without
\* an entry in enabledRepos goes to the platform; the detector of a repository
\* switched off under its composite or its plain key returns nothing without a
\* request, the map the sweep writes keeps the repository's entry as the sweep
\* found it, and the sweep queues no notification for it.
C20_Enablement ==
  \A p \in Procs :
    LET me == proc[p]
        off == { j \in Positions(p) : SwitchedOff(me.repos[j]) }
    IN /\ \A j \in Started(p) \cap off :
            /\ j \notin Called(p)
            /\ me.res[j].tag = "null"
            /\ Entry(me.updated, me.repos[j]) = Entry(me.last, me.repos[j])
       /\ \A j \in Started(p) : NoSetting(me.repos[j]) => j \in Called(p)
       /\ \A n \in 1..Len(me.queue) : ~SwitchedOff(me.queue[n].repo)
       /\ Stored(p) =>
            /\ \A j \in Positions(p) : NoSetting(me.repos[j]) => j \in DOMAIN me.fetched
            /\ \A j \in off :
                 Entry(storage[MapKey(me.kind)], me.repos[j]) = Entry(me.last, me.repos[j])
            /\ me.reqs >= Cardinality(Positions(p) \ off)
            /\ me.reqs <= 2 * Cardinality(Positions(p) \ off)

\* C20: a commit sweep has written its map while a repository that has a
\* stored commit and a newer one on the platform is switched off under its
\* composite key; the sweep has fetched another repository that has no entry
\* in enabledRepos.
C20_Witness ==
  \E p \in Procs :
    LET me == proc[p]
    IN /\ Stored(p) /\ me.kind = "commits"
       /\ \E j, k \in Positions(p) :
            /\ CompositeKey(me.repos[j]) \in DOMAIN storage.settings.enabledRepos
            /\ SwitchedOff(me.repos[j])
            /\ Lookup(me.last, me.repos[j]) # NoId
            /\ Lookup(me.last, me.repos[j]) # Sha(remote.head[me.repos[j]].sha)
            /\ Lookup(storage.lastCommits, me.repos[j]) = Lookup(me.last, me.repos[j])
            /\ me.res[j].tag = "null"
            /\ NoSetting(me.repos[k])
            /\ k \in DOMAIN me.fetched

\* ------------------------------------------------------ detector properties
\* Detector j of handler p settles in the step.
Settles(p, j) == j \in proc[p].pend /\ j \notin proc'[p].pend
\* The latest commit on the default branch of repository j of handler p is the
\* one the map loaded by the sweep holds for it.
HeadIsKnown(p, j) ==
  LET repo == proc[p].repos[j]
  IN Lookup(proc[p].last, repo) = Sha(remote.head[repo].sha)
\* The repositories of handler p's listing whose fetch came back unchanged.
Unchanged(p) ==
  { j \in DOMAIN proc[p].fetched : proc[p].fetched[j].tag = "unchanged" }
Queued(p, repo) == \E n \in 1..Len(proc[p].queue) : proc[p].queue[n].repo = repo

\* What the sweep of handler p keeps of a repository whose fetch came back
\* unchanged: nothing queued, the entry it loaded in its copy of the map and,
\* once the map is written, in the store.
NothingChanged(p) ==
  \A j \in Unchanged(p) :
    LET repo == proc[p].repos[j]
    IN /\ ~Queued(p, repo)
       /\ Lookup(proc[p].updated, repo) = Lookup(proc[p].last, repo)
       /\ Stored(p) => Lookup(storage.lastCommits, repo) = Lookup(proc[p].last, repo)

\* C21  Unchanged commit costs one request and changes nothing: when the
\* detector of a commit sweep settles for a repository whose latest commit is
\* the stored one, exactly one request (the list request) was sent for it, the
\* fetch is marked unchanged and the detector's result is null; and from then
\* on to the end of the sweep nothing is queued for that repository, the copy
\* of the map keeps its entry, and so does the store once the map is written.
C21_UnchangedCostsOne ==
  [][\A p \in Procs :
       /\ \A j \in DOMAIN proc[p].repos :
            (proc[p].kind = "commits" /\ Settles(p, j) /\ HeadIsKnown(p, j))
              => /\ proc'[p].reqs = proc[p].reqs + 1
                 /\ proc'[p].fetched[j].tag = "unchanged"
                 /\ proc'[p].res[j].tag = "null"
       /\ NothingChanged(p)'
  ]_vars

\* A commit sweep has written the map and returned after the fetches of
\* GitHub's a/x and a/y came back unchanged, one request each, while GitLab's
\* a/x had a new commit fetched with two requests.
C21_Witness ==
  \E p \in Procs :
    /\ proc[p].kind = "commits" /\ Completed(p)
    /\ \E j, k, l \in DOMAIN proc[p].fetched :
         /\ proc[p].repos[j] = Repo("github", "a/x") /\ j \in Unchanged(p)
         /\ proc[p].repos[k] = Repo("github", "a/y") /\ k \in Unchanged(p)
         /\ proc[p].repos[l] = Repo("gitlab", "a/x") /\ proc[p].fetched[l].tag = "commit"
         /\ Cardinality(DOMAIN proc[p].fetched) = 3
    /\ proc[p].reqs = 4
    /\ storage.lastCommits[<< "github", "a/x" >>] = Sha(remote.head[Repo("github", "a/x")].sha)

\* The release request of repository j of handler p did not deliver the
\* release the repository has: the repository has one, so the request was not
\* answered not-found, it failed (rejected, rate-limit error, status not ok).
ReleaseRequestFailed(p, j) ==
  LET repo == proc[p].repos[j]
  IN /\ proc[p].kind = "releases" /\ j \in DOMAIN proc[p].fetched
     /\ remote.release[repo] > 0
     /\ proc[p].fetched[j].id # Rel(remote.release[repo])

HeaderOr(h, default) == IF h = -1 THEN default ELSE h
Other(platform) == IF platform = "github" THEN "gitlab" ELSE "github"
\* A client was called in the step and a response came back.
Responded == budget'.calls = budget.calls - 1 /\ call'.outcome = "response"

\* C23  Rate-limit telemetry follows every response: when a call of a
\* platform's client gets a response, whatever its status, the client's
\* tracked state and the record persisted for the platform are afterwards the
\* remaining / reset / limit of that response's headers, a missing header
\* counting as 5000 (GitHub) or 2000 (GitLab) for remaining and limit and as 0
\* for reset; the other platform's tracked state and record are as before.
C23_TelemetryFollowsResponse ==
  [][Responded =>
       LET pf == call'.platform
           a == call'.ans
           default == IF pf = "gitlab" THEN 2000 ELSE 5000
       IN /\ rate'[pf] = [remaining |-> HeaderOr(a.remaining, default),
                          reset |-> HeaderOr(a.reset, 0)]
          /\ storage'[RateKey(pf)] = [remaining |-> HeaderOr(a.remaining, default),
                                      reset |-> HeaderOr(a.reset, 0),
                                      limit |-> HeaderOr(a.limit, default)]
          /\ rate'[Other(pf)] = rate[Other(pf)]
          /\ storage'[RateKey(Other(pf))] = storage[RateKey(Other(pf))]
  ]_vars

\* GitHub's client has just been refused (403) with nothing left out of 60:
\* its tracked state and record say so, while GitLab's, set by an earlier
\* response announcing the floor, are still in place.
C23_Witness ==
  /\ call.made /\ call.platform = "github" /\ call.outcome = "response"
  /\ call.ans = Refusal(call.at)
  /\ rate["github"].remaining = 0 /\ storage.rateLimit.limit = 60
  /\ storage.rateLimit.remaining = 0
  /\ rate["gitlab"].remaining = RateFloor /\ storage.gitlabRateLimit.remaining = RateFloor

\* ------------------------------------------------------------ login properties
\* An authenticate message was handled in the step and its identity request
\* got a response that is not ok.
AuthRefused ==
  /\ budget'.calls = budget.calls - 1
  /\ call'.responded /\ (call'.status < 200 \/ call'.status > 299)

\* C24  Unauthorized de-authenticates one platform only: when the identity
\* request of an authenticate message gets a response that is not ok, the
\* platform's token is cleared and the reply reports failure; the other
\* platform's token, identity, repository cache and rate-limit state, the
\* last-seen maps and the alarm are as before, and startPolling was not called.
C24_RefusedLoginIsLocal ==
  [][AuthRefused =>
       LET pf == call'.platform
           o == Other(pf)
       IN /\ storage'[TokenKey(pf)] = None
          /\ ~call'.success
          /\ storage'[TokenKey(o)] = storage[TokenKey(o)]
          /\ storage'[UserKey(o)] = storage[UserKey(o)]
          /\ storage'[CacheKey(o)] = storage[CacheKey(o)]
          /\ storage'[RateKey(o)] = storage[RateKey(o)]
          /\ rate'[o] = rate[o]
          /\ storage'.lastCommits = storage.lastCommits
          /\ storage'.lastReleases = storage.lastReleases
          /\ alarm' = alarm /\ ~call'.armed
  ]_vars

\* GitHub's login has just been refused with 403 while GitLab is logged in and
\* swept: GitHub's token is gone, GitLab's token, identity and last-seen commit
\* are in place, and the alarm armed by GitLab's login is still armed.
C24_Witness ==
  /\ budget.calls < MaxCalls
  /\ call.platform = "github" /\ call.responded /\ call.status = 403 /\ ~call.success
  /\ storage.githubToken = None
  /\ storage.gitlabToken = "tok" /\ storage.gitlabUserData = Me
  /\ << "gitlab", "a/x" >> \in DOMAIN storage.lastCommits
  /\ alarm

\* ----------------------------------------------------- dispatcher properties
BothSent == call.ids[1] # << >> /\ call.ids[2] # << >>
\* What the identifier is to be a function of.
EventKey(event) ==
  << event.repo.platform, event.kind, event.repo.full_name,
     IF event.kind = "commit" THEN Substring(event.record.sha, 0, 7) ELSE event.record.id >>

ChangedInFlight(p) ==
  /\ Sweeping(p) /\ proc[p].pc # "begin"
  /\ proc[p].settings.checkInterval # storage.settings.checkInterval
\* The sweep of handler p has returned, and unless it returned early it has
\* written its map and dispatched what it queued.
SweepDone(p) ==
  /\ proc[p].pc = "return"
  /\ proc[p].abort = None =>
       /\ Stored(p) /\ storage[MapKey(proc[p].kind)] = proc[p].updated
       /\ \A n \in 1..Len(proc[p].queue) :
            NotificationId(proc[p].kind, proc[p].queue[n]) \in sink
       /\ Len(SelectSeq(proc[p].ev, LAMBDA e : e = "dispatch")) = Len(proc[p].queue)

\* C26  Changing the polling interval through updateSettings clears the alarm
\* and creates it again with the new period, and leaves the sweeps in flight
\* alone: the step changes no handler's position or locals, no last-seen map
\* and nothing of the sink, and a sweep in flight at the change still returns,
\* having written its map and dispatched each queued notification.
C26_IntervalChangeKeepsSweep ==
  /\ [][budget'.edits = budget.edits - 1 =>
          /\ alarm' /\ call'.cleared
          /\ call'.periodInMinutes = storage'.settings.checkInterval
          /\ storage'.settings.checkInterval # storage.settings.checkInterval
          /\ proc' = proc /\ sink' = sink
          /\ storage'.lastCommits = storage.lastCommits
          /\ storage'.lastReleases = storage.lastReleases
       ]_vars
  /\ \A p \in Procs : ChangedInFlight(p) ~> SweepDone(p)

\* A commit sweep during which the interval was changed to 15 minutes has
\* returned with its map written and a notification dispatched; the alarm is
\* armed with a period of 15.
C26_Witness ==
  \E p \in Procs :
    /\ ChangedInFlight(p) /\ SweepDone(p) /\ proc[p].abort = None
    /\ proc[p].kind = "commits" /\ Len(proc[p].queue) = 1
    /\ alarm /\ storage.settings.checkInterval = 15
    /\ budget.edits < MaxEdits /\ call.periodInMinutes = 15

\* --------------------------------------------------------- listing properties
\* The repositories of one platform in a list, in order.
Share(list, pf) == SelectSeq(list, LAMBDA r : r.platform = pf)
HasFork(list, pf) == Fork(pf) \in Range(list)

\* C27  The fork filter acts where the listing is fetched, not where it is
\* used: a sweep reading a fresh cache gets the cached list as it is, whatever
\* ignoreForks is by then, and leaves the cache alone; a change of ignoreForks
\* leaves the cached lists alone; and a list that is fetched and cached (at
\* login or by a sweep on a stale cache) holds the fork exactly when
\* ignoreForks is false at that fetch.
C27_ForksFilteredAtFetch ==
  [][/\ \A p \in Procs : proc[p].pc = "repos" /\ proc'[p].pc = "load" =>
          \A pf \in Platforms : storage[TokenKey(pf)] # None =>
            LET cache == storage[CacheKey(pf)]
                got == Share(proc'[p].repos, pf)
            IN IF ~Stale(cache, now)
                 THEN got = cache.list /\ storage'[CacheKey(pf)] = cache
                 ELSE \/ got = << >> /\ storage'[CacheKey(pf)] = cache
                      \/ /\ storage'[CacheKey(pf)] = [has |-> TRUE, list |-> got, updated |-> now]
                         /\ HasFork(got, pf) <=> ~storage.settings.ignoreForks
     /\ storage'.settings.ignoreForks # storage.settings.ignoreForks =>
          \A pf \in Platforms : storage'[CacheKey(pf)] = storage[CacheKey(pf)]
     /\ \A pf \in Platforms :
          storage'[CacheKey(pf)].has /\ storage'[CacheKey(pf)] # storage[CacheKey(pf)] =>
            /\ storage'[CacheKey(pf)].updated = now
            /\ HasFork(storage'[CacheKey(pf)].list, pf) <=> ~storage.settings.ignoreForks
    ]_vars

\* ignoreForks was switched off before the GitHub login and on again before
\* the GitLab login: a sweep started since has read both cached lists,
\* GitHub's with its fork and GitLab's without.
C27_Witness ==
  \E p \in Procs :
    /\ proc[p].pc \notin {"idle", "begin", "user", "repos"} /\ proc[p].abort = None
    /\ storage.settings.ignoreForks /\ proc[p].settings.ignoreForks
    /\ storage.repositories.has /\ HasFork(storage.repositories.list, "github")
    /\ Share(proc[p].repos, "github") = storage.repositories.list
    /\ Share(proc[p].repos, "gitlab") = Listing("gitlab")

\* ------------------------------------------------------- WatchState properties
\* The step is a sweep writing its map at its end.
SweepWrites == \E p \in Procs : proc[p].pc = "store" /\ proc'[p].pc # "store"
MapsChange ==
  \/ storage'.lastCommits # storage.lastCommits
  \/ storage'.lastReleases # storage.lastReleases

\* C28  The last-seen commit map and the last-seen release map change only in
\* the step in which a sweep writes its map after its detectors have settled;
\* no message (logout, logoutGitHub, logoutGitLab, resetReleaseCache,
\* updateSettings, authenticate) changes either of them.
C28_SingleWriter == [][MapsChange => SweepWrites]_vars

\* ---------------------------------------------------- notification properties
\* The fetch for repository j of handler p's sweep succeeded with an identifier
\* other than the one the sweep loaded for it, the repository being enabled
\* and having a baseline, and the commit not being one to suppress as the
\* user's own.
ChangeFound(p, j) ==
  LET me == proc[p]
      repo == me.repos[j]
      known == Lookup(me.last, repo)
  IN /\ me.fetched[j].tag \notin {"null", "throw", "unchanged"}
     /\ known # NoId /\ me.fetched[j].id # known
     /\ ~RepoDisabled(repo, me.settings)
     /\ ~(/\ me.kind = "commits" /\ me.settings.ignoreOwnCommits
          /\ CurrentUser(p, j) # None /\ me.fetched[j].author = CurrentUser(p, j))
QueueEntries(p, repo) == { n \in 1..Len(proc[p].queue) : proc[p].queue[n].repo = repo }
\* The step is a dispatch of handler p.
Dispatching(p) ==
  /\ proc[p].pc = "notify" /\ Len(proc'[p].ev) = Len(proc[p].ev) + 1

Effects ==
  << storage.lastCommits, storage.lastReleases, storage.notificationHistory,
     storage.unreadCount, storage.lastCheckTime, sink >>
NotStored(p) == ~Stored(p)
FailedEarly(p) == proc[p].pc = "return" /\ proc[p].abort = "failed" /\ NotStored(p)

\* C31  An aborted sweep has no partial effect: no step a sweep takes before
\* its map is written, the step into its catch and the catch included, changes
\* either last-seen map, the history, the unread counter, the time of the last
\* check or the notifications shown; a sweep that failed before the write has
\* dispatched nothing and written at most the error.
C31_AbortHasNoEffect ==
  /\ [][\A p \in Procs :
          (Sweeping(p) /\ proc'[p] # proc[p] /\ NotStored(p) /\ NotStored(p)')
            => Effects' = Effects]_vars
  /\ [](\A p \in Procs :
          FailedEarly(p) => /\ proc[p].ev = << >>
                            /\ proc[p].wrote \subseteq {"lastError"})

\* A commit sweep has failed and returned before writing the map while a
\* commit newer than the stored one was waiting on GitHub's a/x: the stored
\* sha is still the old one.
C31_Witness ==
  \E p \in Procs :
    LET repo == Repo("github", "a/x")
    IN /\ FailedEarly(p) /\ proc[p].kind = "commits"
       /\ CompositeKey(repo) \in DOMAIN storage.lastCommits
       /\ storage.lastCommits[CompositeKey(repo)] # Sha(remote.head[repo].sha)
       /\ storage.lastError # None

\* ---------------------------------------------------- termination properties
\* The sweep of handler p has returned at one of its guards, nothing done.
ReturnedEarly(p) == proc[p].pc = "return" /\ proc[p].abort \in {"disabled", "nouser"}
\* The sweep of handler p has returned with its map written and one dispatch
\* for each queued change.
Persisted(p) ==
  /\ Completed(p) /\ Stored(p)
  /\ Len(SelectSeq(proc[p].ev, LAMBDA e : e = "dispatch")) = Len(proc[p].queue)
\* The sweep of handler p has returned from its catch, the error stored.
AbortRecorded(p) ==
  /\ proc[p].pc = "return" /\ proc[p].abort = "failed"
  /\ proc[p].err # None /\ storage.lastError = proc[p].err

\* C32  Sweep termination: every request and storage call settling in the
\* end, a sweep that has started returns, and a sweep that has returned past
\* its guards has either written its map and dispatched every queued change
\* or aborted with its error recorded.
C32_SweepSettles ==
  /\ \A p \in Procs : Sweeping(p) ~> proc[p].pc = "return"
  /\ [](\A p \in Procs :
          proc[p].pc = "return" => ReturnedEarly(p) \/ Persisted(p) \/ AbortRecorded(p))

\* -------------------------------------------------------- logout properties
\* What a step that logs out of platform pf alone is to do: that platform's
\* token, identity and repository cache are gone, those of the other platform
\* and the last-seen entries of the other platform's repositories are as they
\* were, and the alarm stays armed exactly when it was armed and the other
\* platform holds a token.
OtherPlatform(pf) == IF pf = "github" THEN "gitlab" ELSE "github"
OthersKept(pf) ==
  LET o == OtherPlatform(pf)
  IN /\ storage'[TokenKey(o)] = storage[TokenKey(o)]
     /\ storage'[UserKey(o)] = storage[UserKey(o)]
     /\ storage'[CacheKey(o)] = storage[CacheKey(o)]
EntriesKept(pf) ==
  \A k \in Kinds : \A r \in AllRepos :
    r.platform = OtherPlatform(pf) =>
      Lookup(storage'[MapKey(k)], r) = Lookup(storage[MapKey(k)], r)
OwnRemoved(pf) ==
  /\ storage'[TokenKey(pf)] = None /\ storage'[UserKey(pf)] = None
  /\ storage'[CacheKey(pf)] = NoCache
  /\ alarm' = (alarm /\ storage[TokenKey(OtherPlatform(pf))] # None)

\* C33  Per-platform logout affects only that platform: logoutGitHub and
\* logoutGitLab remove their platform's token, identity and cached listing,
\* leave the other platform's token, identity, cached listing and last-seen
\* commit and release entries unchanged, and disarm the alarm only when the
\* other platform holds no token.
C33_PlatformLogoutIsLocal ==
  [][/\ LogoutGitHub => OwnRemoved("github") /\ OthersKept("github") /\ EntriesKept("github")
     /\ LogoutGitLab => OwnRemoved("gitlab") /\ OthersKept("gitlab") /\ EntriesKept("gitlab")
    ]_vars

\* No platform holds a token: nobody has logged in since the installation or
\* since the last logout.
LoggedOut == \A pf \in Platforms : storage[TokenKey(pf)] = None
WatchStateAbsent ==
  /\ storage.lastCommits = << >> /\ storage.lastReleases = << >>
  /\ storage.userData = None /\ storage.gitlabUserData = None

\* C34  Logout is final with respect to sweeps in flight: while no platform
\* holds a token, the last-seen maps and the identities are absent from the
\* store and no step hands a notification to the platform, whatever a sweep
\* that was running at the logout still does.
C34_LogoutIsFinal ==
  /\ [](LoggedOut => WatchStateAbsent)
  /\ [][LoggedOut => sink' = sink]_vars

\* ------------------------------------------------------ history properties
\* The stored list after a write holds, behind its first entry, what was
\* stored before the write (up to the cap).
KeepsStored(after, before) ==
  /\ after # << >>
  /\ Tail(after) = Take(before, HistoryCap - 1)
NewestFirst(history) ==
  \A i \in 1..(Len(history) - 1) : history[i].timestamp >= history[i + 1].timestamp

\* C35  No history entry is lost under interleaving: every write of
\* storeNotificationHistory leaves the entries stored before it in the list
\* behind the new record (up to the cap of 100), also when the dispatches of
\* two handlers interleave, and the list is ordered newest first.
C35_NoHistoryEntryLost ==
  /\ [][\A p \in Procs :
          (proc[p].pc = "history" /\ proc'[p] # proc[p])
            => KeepsStored(storage'.notificationHistory, storage.notificationHistory)]_vars
  /\ [](NewestFirst(storage.notificationHistory))

\* ------------------------------------------------------- badge properties
\* The step of handler p that ends its incrementUnreadCount.
Counts(p) == proc[p].pc = "badgeWrite" /\ proc'[p] # proc[p]

\* C36  Unread counter accounting: the write of a sweep's count raises the
\* stored counter by the number of changes the sweep queued, clearing it sets
\* it to 0, nothing else changes it, and it is never negative, under any
\* interleaving of sweeps, manual checks and clearing.
C36_UnreadAccounting ==
  /\ [][\A p \in Procs :
          Counts(p) => storage'.unreadCount = storage.unreadCount + Len(proc[p].queue)]_vars
  /\ [][ClearUnreadCount => storage'.unreadCount = 0]_vars
  /\ [][storage'.unreadCount # storage.unreadCount
          => ClearUnreadCount \/ \E p \in Procs : Counts(p)]_vars
  /\ [](storage.unreadCount >= 0)

\* --------------------------------------------- notification-feed properties
\* Thread n is important and its id is not in the seen list.
Eligible(n, seenNotifications) == Important(n) /\ n.id \notin Range(seenNotifications)
Emitted(p) == { proc[p].queue[k].id : k \in 1..Len(proc[p].queue) }
ThreadIds == { x \in sink : Len(x) = 2 }

Stage(p) == IF Busy(p) THEN proc[p].kind ELSE "none"
HandlerOrder ==
  { << "none", "commits" >>, << "commits", "releases" >>,
    << "releases", "notifications" >>, << "notifications", "none" >> }

ResetReached ==
  /\ call.made /\ call.before.remaining <= RateFloor /\ call.before.reset # 0
  /\ call.at >= call.before.reset * MsPerSecond
\* The call just made got a response without the rate-limit headers.
HeaderlessResponse ==
  /\ call' # call /\ call'.sent /\ ~call'.ans.net
  /\ call'.ans.remaining = -1 /\ call'.ans.reset = -1

\* C39  The claim as first stated: the first call made at or after the reset
\* time issues a network request again.
C39_GateRecovers == ResetReached => call.sent

\* C39  Rate-limit gate recovers: a call that fails fast sends nothing and
\* leaves the tracked state as it is, and no call sends a request while the
\* state is at the floor and the reset time has not come; a call made with a
\* token stored once the reset time has come sends a request; a response
\* without the rate-limit headers sets the tracked state to the full budget and
\* reset 0, and a call made with a token on that state sends a request.
C39_GateRecoversWithToken ==
  /\ [][(call' # call /\ call'.outcome = "ratelimited")
          => (~call'.sent /\ rate' = rate)]_vars
  /\ [](Gated => ~call.sent)
  /\ []((ResetReached /\ call.token # None) => call.sent)
  /\ [][HeaderlessResponse
          => rate'[call'.platform] = InitialRate[call'.platform]]_vars
  /\ []((call.made /\ call.token # None /\ call.before = InitialRate[call.platform])
          => call.sent)

\* A call made with a token stored, on a state at the floor whose reset time
\* had come, has sent its request.
C39_Witness == ResetReached /\ call.token # None /\ call.sent
====
